---- MODULE Spec2Model ----
(***************************************************************************)
(* Model of the healing agent of helix-platform (aiops/healing-agent):     *)
(* PatternMatcher, AIAnalyzer, HybridClassifier, KubernetesRemediator,     *)
(* SlackNotifier and the process_alert glue of main.py.                    *)
(*                                                                         *)
(* Conventions                                                             *)
(*   - a Python str that the code inspects is a sequence of one-character  *)
(*     strings; a str the code only carries is a TLA+ string;              *)
(*   - a Python dict is a function whose DOMAIN is its key set, read with  *)
(*     Get(d, k, default) as dict.get does;                                *)
(*   - Optional[X] is a sequence: <<>> for None, <<x>> for a value;        *)
(*   - a float confidence is an integer number of millionths               *)
(*     (0.85 is 850000), so that 0.849999 and 0.85 are distinct.           *)
(***************************************************************************)
EXTENDS Integers, Sequences, FiniteSets, TLC

VARIABLES
    stats,                \* HybridClassifier.stats
    alert_history,        \* main.alert_history
    action_history,       \* main.action_history
    actions_taken,        \* KubernetesRemediator.actions_taken
    cluster,              \* the deployment the alerts are about, as the cluster holds it
    notifier,             \* SlackNotifier: enabled and its two counters
    DRY_RUN,              \* main.DRY_RUN, also KubernetesRemediator.dry_run
    ai_available,         \* AIAnalyzer.is_available(), fixed at construction
    last,                 \* the last call made: its operation, inputs, result and effects
    input,                \* the arguments drawn for the call of a single-call specification
    threads,              \* the request threads of SpecConcurrent: position and locals of each
    orders,               \* the orders table of the order service, by order id
    stock                 \* the products of the product service, by product id

vars == <<stats, alert_history, action_history, actions_taken, cluster,
          notifier, DRY_RUN, ai_available, last, input, threads, orders, stock>>

----------------------------------------------------------------------------
(* Bounds of the model *)

\* most words of a description
MaxWords == 3

\* most calls of HybridClassifier.classify, and most approvals of
\* should_auto_execute, in one behaviour of SpecClassifier
MaxCalls == 2

\* most replicas of the deployment before an execution
MaxReplicas == 3

\* most alerts process_alert is given in one behaviour of Spec
MaxAlerts == 2

\* largest increment of a scale action, in absolute value
MaxIncrement == 3

\* the request threads of SpecConcurrent
MaxThreads == 2

\* the orders the order service holds in SpecOrders
MaxOrders == 2

\* the items of an order, and the stock a product starts with
MaxItems == 2
MaxStock == 3

----------------------------------------------------------------------------
(* Python helpers *)

\* dict.get(k, default)
Get(d, k, default) == IF k \in DOMAIN d THEN d[k] ELSE default

None == <<>>
Some(x) == <<x>>

Max(a, b) == IF a >= b THEN a ELSE b

\* a dict with the keys of `keys` taken from d
Restrict(d, keys) == [k \in keys |-> d[k]]

\* the lower-case letter of every upper-case ASCII letter
UpperToLower ==
    [A |-> "a", B |-> "b", C |-> "c", D |-> "d", E |-> "e", F |-> "f", G |-> "g",
     H |-> "h", I |-> "i", J |-> "j", K |-> "k", L |-> "l", M |-> "m", N |-> "n",
     O |-> "o", P |-> "p", Q |-> "q", R |-> "r", S |-> "s", T |-> "t", U |-> "u",
     V |-> "v", W |-> "w", X |-> "x", Y |-> "y", Z |-> "z"]

\* str.lower() on one character
LowerChar(c) == IF c \in DOMAIN UpperToLower THEN UpperToLower[c] ELSE c

\* str.lower()
Lower(s) == [i \in 1..Len(s) |-> LowerChar(s[i])]

----------------------------------------------------------------------------
(* The regular expressions of the rule table.  Every pattern of the table  *)
(* is an alternation of branches, a branch being one literal or            *)
(* literal .* literal; inside a literal the only metacharacter is the dot. *)
(* A literal is a sequence of characters in which Dot stands for the       *)
(* regular expression's dot.                                               *)

Dot == "DOT"

\* one pattern character against one subject character, under re.IGNORECASE;
\* the dot matches every character but the newline
CharMatches(p, c) ==
    IF p = Dot THEN c # "\n" ELSE LowerChar(p) = LowerChar(c)

\* the literal lit matches s at position i (1-based)
LiteralAt(lit, s, i) ==
    /\ i >= 1
    /\ i + Len(lit) - 1 <= Len(s)
    /\ \A k \in 1..Len(lit) : CharMatches(lit[k], s[i + k - 1])

\* .* spans s[from..to]: any run of characters holding no newline
DotStarSpans(s, from, to) == \A k \in from..to : s[k] # "\n"

\* re.search of one branch in s
BranchSearch(branch, s) ==
    IF Len(branch) = 1
    THEN \E i \in 1..Len(s) : LiteralAt(branch[1], s, i)
    ELSE \E i \in 1..Len(s) :
            /\ LiteralAt(branch[1], s, i)
            /\ \E j \in (i + Len(branch[1]))..Len(s) :
                  /\ LiteralAt(branch[2], s, j)
                  /\ DotStarSpans(s, i + Len(branch[1]), j - 1)

\* re.search(pattern, s, re.IGNORECASE) is not None
ReSearch(pattern, s) == \E b \in 1..Len(pattern) : BranchSearch(pattern[b], s)

----------------------------------------------------------------------------
(* PatternMatcher *)

\* RemediationAction(action_type, target, parameters, confidence, reason)
RemediationAction(t, tg, p, c, r) ==
    [action_type |-> t, target |-> tg, parameters |-> p, confidence |-> c, reason |-> r]

\* PatternMatcher._load_patterns
patterns == <<
    [name |-> "pod_crash_loop", alert_name |-> "PodCrashLooping",
     pattern |-> << << <<"c","r","a","s","h">>, <<"l","o","o","p">> >> >>,
     action |-> RemediationAction("restart", "pod", [grace_period |-> 30], 950000,
                   <<"Pod is crash looping - restart with fresh state">>)],
    [name |-> "service_down", alert_name |-> "ServiceDown",
     pattern |-> << << <<"s","e","r","v","i","c","e">>, <<"d","o","w","n">> >>,
                    << <<"u","p">>, <<"=","="," ","0">> >> >>,
     action |-> RemediationAction("restart", "deployment", [replicas |-> "current"], 900000,
                   <<"Service is down - restart all pods">>)],
    [name |-> "pod_not_ready", alert_name |-> "PodNotReady",
     pattern |-> << << <<"p","o","d">>, <<"n","o","t"," ","r","e","a","d","y">> >>,
                    << <<"p","e","n","d","i","n","g">> >>,
                    << <<"u","n","k","n","o","w","n">> >> >>,
     action |-> RemediationAction("investigate", "pod",
                   [check_events |-> TRUE, check_logs |-> TRUE], 700000,
                   <<"Pod not ready - needs investigation">>)],
    [name |-> "memory_leak", alert_name |-> "MemoryLeakDetected",
     pattern |-> << << <<"m","e","m","o","r","y">>, <<"l","e","a","k">> >>,
                    << <<"m","e","m","o","r","y">>, <<"9","5">> >> >>,
     action |-> RemediationAction("restart", "pod",
                   [drain_connections |-> TRUE, grace_period |-> 60], 920000,
                   <<"Memory leak detected - restart to reclaim memory">>)],
    [name |-> "high_memory_usage", alert_name |-> "HighMemoryUsage",
     pattern |-> << << <<"m","e","m","o","r","y">>, <<"8","5">> >>,
                    << <<"h","i","g","h"," ","m","e","m","o","r","y">> >> >>,
     action |-> RemediationAction("scale", "deployment",
                   [direction |-> "up", increment |-> 1], 800000,
                   <<"High memory usage - scale horizontally">>)],
    [name |-> "high_cpu", alert_name |-> "HighCPUUsage",
     pattern |-> << << <<"c","p","u">>, <<"8","0">> >>,
                    << <<"h","i","g","h"," ","c","p","u">> >> >>,
     action |-> RemediationAction("scale", "deployment",
                   [direction |-> "up", increment |-> 1], 850000,
                   <<"High CPU usage - scale horizontally">>)],
    [name |-> "high_error_rate", alert_name |-> "HighErrorRate",
     pattern |-> << << <<"e","r","r","o","r"," ","r","a","t","e">>, <<"5">> >>,
                    << <<"e","r","r","o","r","s">>, <<"h","i","g","h">> >> >>,
     action |-> RemediationAction("rollback", "deployment", [revisions_back |-> 1], 880000,
                   <<"High error rate - likely bad deployment, rollback">>)],
    [name |-> "high_latency", alert_name |-> "HighLatency",
     pattern |-> << << <<"l","a","t","e","n","c","y">>, <<"0",Dot,"5">> >>,
                    << <<"s","l","o","w">>, <<"r","e","s","p","o","n","s","e">> >> >>,
     action |-> RemediationAction("scale", "deployment",
                   [direction |-> "up", increment |-> 2], 820000,
                   <<"High latency - scale to handle load">>)],
    [name |-> "too_few_replicas", alert_name |-> "TooFewReplicas",
     pattern |-> << << <<"t","o","o"," ","f","e","w"," ","r","e","p","l","i","c","a","s">> >>,
                    << <<"r","e","p","l","i","c","a","s">>, <<"l","o","w">> >> >>,
     action |-> RemediationAction("scale", "deployment",
                   [direction |-> "up", to_spec |-> TRUE], 950000,
                   <<"Replicas below specification - scale to match spec">>)]
>>

\* the two tests the loop of PatternMatcher.classify makes on one rule
NameMatches(pattern_def, alert_name) == pattern_def.alert_name = alert_name
DescriptionMatches(pattern_def, description) == ReSearch(pattern_def.pattern, description)

\* RuleFires without the test of the alert name
RuleFires_DescriptionOnly(pattern_def, alert_name, description) ==
    DescriptionMatches(pattern_def, description)

\* one iteration of the loop: the rule fires on the name or on the description
RuleFires(pattern_def, alert_name, description) ==
    \/ NameMatches(pattern_def, alert_name)
    \/ DescriptionMatches(pattern_def, description)

\* MatchFrom without the return inside the loop: the last rule that fires wins
RECURSIVE MatchFrom_LastWins(_, _, _)
MatchFrom_LastWins(i, alert_name, description) ==
    IF i > Len(patterns) THEN None
    ELSE LET rest == MatchFrom_LastWins(i + 1, alert_name, description) IN
         IF rest # None THEN rest
         ELSE IF RuleFires(patterns[i], alert_name, description)
              THEN Some(patterns[i].action)
              ELSE None

\* the loop of PatternMatcher.classify from rule i on: the first rule that fires
RECURSIVE MatchFrom(_, _, _)
MatchFrom(i, alert_name, description) ==
    IF i > Len(patterns) THEN None
    ELSE IF RuleFires(patterns[i], alert_name, description)
         THEN Some(patterns[i].action)
         ELSE MatchFrom(i + 1, alert_name, description)

\* PatternMatcher.classify(alert)
PatternMatcher_classify(alert) ==
    LET alert_name  == Get(Get(alert, "labels", <<>>), "alertname", "")
        description == Lower(Get(Get(alert, "annotations", <<>>), "description", <<>>))
    IN  MatchFrom(1, alert_name, description)

\* PatternMatcher.get_confidence_threshold()
get_confidence_threshold == 850000

----------------------------------------------------------------------------
(* Alerts *)

\* the words descriptions are made of; every one of them is part of some
\* pattern of the table, in the case the table writes or another one, and
\* the newline is the one character the dot of a pattern does not match
Words == { <<"c","r","a","s","h">>, <<"L","O","O","P">>, <<"M","e","m","o","r","y">>,
           <<"l","e","a","k">>, <<"8","5">>, <<"h","i","g","h">>, <<"\n">> }

\* words joined by single spaces
RECURSIVE Join(_)
Join(ws) ==
    IF Len(ws) = 0 THEN <<>>
    ELSE IF Len(ws) = 1 THEN ws[1]
    ELSE ws[1] \o <<" ">> \o Join(Tail(ws))

Descriptions == { Join(ws) : ws \in UNION { [1..n -> Words] : n \in 0..MaxWords } }

\* the alert names of the table, and one that is in no rule
RuleNames == { patterns[i].alert_name : i \in 1..Len(patterns) }
AlertNames == RuleNames \cup {"DiskPressure"}

\* the alerts given to PatternMatcher.classify: with or without the alertname
\* label and the description annotation
LabelSets == { [alertname |-> n] : n \in AlertNames } \cup { <<>> }
AnnotationSets == { [description |-> d] : d \in Descriptions } \cup { <<>> }
MatcherAlerts == { [labels |-> l, annotations |-> a] : l \in LabelSets, a \in AnnotationSets }

----------------------------------------------------------------------------
(* AIAnalyzer *)

(* What the reasoning service does with one request: the request raises    *)
(* (network error, timeout, API error), or a reply text comes back.  The   *)
(* text of a reply is described by what _parse_ai_response looks at:       *)
(*   prose   - text stands before the payload, so the reply does not start *)
(*             with a code fence and is not a JSON document as a whole;    *)
(*   fence   - the markdown code fence (three backquotes) around the       *)
(*             payload: "none", "bare" (no language tag), "json" or "js"   *)
(*             (a fence with that language tag);                           *)
(*   payload - what json.loads finds: "not_json" (no JSON document),       *)
(*             "array" (a JSON document that is no object) or "object"     *)
(*             with the members obj; a member holding a number is          *)
(*             [t |-> "num", v |-> millionths], one holding a string that  *)
(*             float() rejects is [t |-> "str", v |-> text].               *)
(* A reply without text (message.content is None) is the outcome           *)
(* "no_content".                                                           *)

\* ai_response[:n]: the first n characters of the reply text
Prefix(reply, n) == [of |-> reply, upto |-> n]

\* the text json.loads is given: "payload" (the payload alone) or "other"
\* (the payload with more text around it)
ExtractedText(reply) ==
    IF reply.prose THEN "other"                 \* does not start with a fence: parsed whole
    ELSE IF reply.fence = "none" THEN "payload"
    ELSE IF reply.fence \in {"bare", "json"} THEN "payload"   \* split(fence)[1], less "json"
    ELSE "other"                                \* another language tag stays in the text

\* json.loads raises JSONDecodeError
JSONDecodeError(reply) ==
    \/ ExtractedText(reply) = "other"
    \/ reply.payload.kind = "not_json"

\* float(parsed.get("confidence", 0.5)) raises
FloatRaises(obj) == "confidence" \in DOMAIN obj /\ obj["confidence"].t # "num"

\* the JSONDecodeError handler answering as the generic handler does
InconclusiveAction_AsParseError(reply) ==
    RemediationAction("investigate", "pod", <<>>, 0, <<"AI analysis error: ">>)

\* the fallback of the JSONDecodeError handler
InconclusiveAction(reply) ==
    RemediationAction("investigate", "pod", [ai_response |-> Prefix(reply, 500)], 300000,
                      <<"AI analysis inconclusive. Response: ", Prefix(reply, 200), "...">>)

\* the fallback of the generic exception handler
ParseErrorAction ==
    RemediationAction("investigate", "pod", <<>>, 0, <<"AI analysis error: ">>)

\* AIAnalyzer._parse_ai_response(ai_response, alert)
parse_ai_response(reply) ==
    IF JSONDecodeError(reply) THEN InconclusiveAction(reply)
    ELSE IF reply.payload.kind # "object" THEN ParseErrorAction   \* parsed.get: AttributeError
    ELSE LET parsed == reply.payload.obj IN
         IF FloatRaises(parsed) THEN ParseErrorAction
         ELSE RemediationAction(
                  Get(parsed, "action_type", "investigate"),
                  Get(parsed, "target", "pod"),
                  Get(parsed, "parameters", <<>>),
                  Get(parsed, "confidence", [t |-> "num", v |-> 500000]).v,
                  <<"AI Analysis: ", Get(parsed, "reason", "No reason provided")>>)

\* the exception raised inside the try block of analyze_alert, if any: the
\* request raises, or len(ai_response) raises on a reply without text
AnalyzeException(outcome) ==
    IF outcome.kind = "raises" THEN Some("request error")
    ELSE IF outcome.kind = "no_content" THEN Some("TypeError")
    ELSE None

\* a handler that catches the errors of the request only
AnalyzeCatches_RequestErrorsOnly(exc) == exc = "request error"

\* except Exception
AnalyzeCatches(exc) == exc \in {"request error", "TypeError"}

\* AIAnalyzer.analyze_alert(alert, recent_metrics, pod_logs): the result,
\* whether it raised, and the number of requests sent to the reasoning service
analyze_alert(available, alert, outcome) ==
    IF ~available THEN [ret |-> None, raised |-> FALSE, requests |-> 0]
    ELSE IF AnalyzeException(outcome) # None
    THEN [ret |-> None, raised |-> ~AnalyzeCatches(AnalyzeException(outcome)[1]),
          requests |-> 1]
    ELSE [ret |-> Some(parse_ai_response(outcome.reply)), raised |-> FALSE, requests |-> 1]

----------------------------------------------------------------------------
(* HybridClassifier *)

Incr(st, counter) == [st EXCEPT ![counter] = @ + 1]

\* ManualReviewAction with the confidence of an inconclusive reply
ManualReviewAction_Inconclusive ==
    RemediationAction("investigate", "pod",
                      [reason |-> "No pattern match and AI unavailable"], 300000,
                      <<"Unable to classify - requires manual investigation">>)

\* the action of step 3 of HybridClassifier.classify
ManualReviewAction ==
    RemediationAction("investigate", "pod",
                      [reason |-> "No pattern match and AI unavailable"], 0,
                      <<"Unable to classify - requires manual investigation">>)

\* HybridClassifier.classify asking the reasoner before it looks at the rule's
\* action: the reasoner is consulted for every alert when it is available
HybridClassifier_classify_AiFirst(st, available, alert, outcome) ==
    LET st1 == Incr(st, "total_alerts")
        action == PatternMatcher_classify(alert)
        ai == analyze_alert(available, alert, outcome)
    IN  IF available /\ ai.ret # None
        THEN [ret |-> ai.ret[1], stats |-> Incr(st1, "ai_analysis_used"),
              rule_calls |-> 1, ai_calls |-> 1, ai_requests |-> ai.requests]
        ELSE IF action # None
        THEN [ret |-> action[1], stats |-> Incr(st1, "rule_based_matches"),
              rule_calls |-> 1, ai_calls |-> IF available THEN 1 ELSE 0,
              ai_requests |-> ai.requests]
        ELSE [ret |-> ManualReviewAction, stats |-> Incr(st1, "manual_review"),
              rule_calls |-> 1, ai_calls |-> IF available THEN 1 ELSE 0,
              ai_requests |-> ai.requests]

\* HybridClassifier.classify(alert, recent_metrics, pod_logs): the result, the
\* stats it leaves, and the numbers of calls of PatternMatcher.classify and
\* of AIAnalyzer.analyze_alert
HybridClassifier_classify(st, available, alert, outcome) ==
    LET st1 == Incr(st, "total_alerts")
        action == PatternMatcher_classify(alert)
    IN  IF action # None
        THEN [ret |-> action[1], stats |-> Incr(st1, "rule_based_matches"),
              rule_calls |-> 1, ai_calls |-> 0, ai_requests |-> 0]
        ELSE IF available
        THEN LET st2 == Incr(st1, "ai_analysis_used")
                 ai  == analyze_alert(available, alert, outcome)
             IN  IF ai.ret # None
                 THEN [ret |-> ai.ret[1], stats |-> st2,
                       rule_calls |-> 1, ai_calls |-> 1, ai_requests |-> ai.requests]
                 ELSE [ret |-> ManualReviewAction, stats |-> Incr(st2, "manual_review"),
                       rule_calls |-> 1, ai_calls |-> 1, ai_requests |-> ai.requests]
        ELSE [ret |-> ManualReviewAction, stats |-> Incr(st1, "manual_review"),
              rule_calls |-> 1, ai_calls |-> 0, ai_requests |-> 0]

\* MeetsThreshold without the comparison
MeetsThreshold_AnyConfidence(confidence, threshold) == TRUE

\* MeetsThreshold with > for >=
MeetsThreshold_Strict(confidence, threshold) == confidence > threshold

\* action.confidence >= threshold
MeetsThreshold(confidence, threshold) == confidence >= threshold

\* should_auto_execute without the test of the action type
should_auto_execute_NoInvestigateTest(st, action, dry_run) ==
    IF dry_run THEN [ret |-> FALSE, stats |-> st, action |-> action]
    ELSE LET should_execute == MeetsThreshold(action.confidence, get_confidence_threshold)
         IN  [ret |-> should_execute,
              stats |-> IF should_execute THEN Incr(st, "auto_executed") ELSE st,
              action |-> action]

\* should_auto_execute without the test of dry_run
should_auto_execute_NoDryRunTest(st, action, dry_run) ==
    IF action.action_type = "investigate" THEN [ret |-> FALSE, stats |-> st, action |-> action]
    ELSE LET should_execute == MeetsThreshold(action.confidence, get_confidence_threshold)
         IN  [ret |-> should_execute,
              stats |-> IF should_execute THEN Incr(st, "auto_executed") ELSE st,
              action |-> action]

\* should_auto_execute counting every decision it takes above the two early
\* returns, not only those that are true
should_auto_execute_CountsEveryDecision(st, action, dry_run) ==
    IF dry_run THEN [ret |-> FALSE, stats |-> st, action |-> action]
    ELSE IF action.action_type = "investigate"
    THEN [ret |-> FALSE, stats |-> st, action |-> action]
    ELSE LET should_execute == MeetsThreshold(action.confidence, get_confidence_threshold)
         IN  [ret |-> should_execute, stats |-> Incr(st, "auto_executed"),
              action |-> action]

\* HybridClassifier.should_auto_execute(action, dry_run): the result, the
\* stats it leaves, and the action as the call leaves it
should_auto_execute(st, action, dry_run) ==
    IF dry_run THEN [ret |-> FALSE, stats |-> st, action |-> action]
    ELSE IF action.action_type = "investigate" THEN [ret |-> FALSE, stats |-> st, action |-> action]
    ELSE LET should_execute == MeetsThreshold(action.confidence, get_confidence_threshold)
         IN  [ret |-> should_execute,
              stats |-> IF should_execute THEN Incr(st, "auto_executed") ELSE st,
              action |-> action]

----------------------------------------------------------------------------
(* KubernetesRemediator *)

(* The cluster holds one deployment, DeploymentName, with its pod PodName. *)
(* cluster = [replicas, revision] is that deployment's spec.replicas and   *)
(* its deployment.kubernetes.io/revision annotation.  A call that names    *)
(* another object fails with an ApiException (404).  What a call on an     *)
(* existing object does is an input of the execution:                      *)
(*   "ok"          - the call succeeds;                                    *)
(*   "api_error"   - it raises ApiException (forbidden, conflict, 5xx);    *)
(*                   for kubectl rollout undo, a non-zero exit;            *)
(*   "other_error" - it raises another exception (connection refused or    *)
(*                   timed out: urllib3 errors are no ApiException); for   *)
(*                   kubectl, the command cannot be run.                   *)
(* oc.read is the outcome of the first cluster call of a handler and       *)
(* oc.write the outcome of its second one; oc.pod, oc.log, oc.deployment   *)
(* and oc.events are the outcomes of the four fetches of _investigate.     *)

DeploymentName == "web"
PodName == "web-1"

\* the outcome of a call on the deployment name
OnDeployment(name, outcome) == IF name = DeploymentName THEN outcome ELSE "api_error"
\* the outcome of a call on the pod name
OnPod(name, outcome) == IF name = PodName THEN outcome ELSE "api_error"

\* what a handler hands back to execute: it returns ret, or raises
Returned(ret, calls, cl, taken) ==
    [raised |-> FALSE, ret |-> ret, calls |-> calls, cluster |-> cl, taken |-> taken]
Raised(calls, cl, taken) ==
    [raised |-> TRUE, ret |-> [status |-> "raised"], calls |-> calls, cluster |-> cl,
     taken |-> taken]

\* the handler of except ApiException in _restart and _scale: an ApiException
\* becomes an error result, any other exception leaves the handler
ExceptApiException(what, outcome, calls, cl, taken) ==
    IF outcome = "api_error"
    THEN Returned([status |-> "error", message |-> <<"Failed to ", what>>,
                   error |-> outcome], calls, cl, taken)
    ELSE Raised(calls, cl, taken)

\* except Exception catching ApiException only
ExceptException_ApiOnly(what, outcome, calls, cl, taken) ==
    IF outcome = "api_error"
    THEN Returned([status |-> "error", message |-> <<"Failed to ", what>>,
                   error |-> outcome], calls, cl, taken)
    ELSE Raised(calls, cl, taken)

\* except Exception recording the error result among the actions taken
ExceptException_Recording(what, outcome, calls, cl, taken) ==
    Returned([status |-> "error", message |-> <<"Failed to ", what>>, error |-> outcome],
             calls, cl,
             Append(taken, [status |-> "error", message |-> <<"Failed to ", what>>,
                            error |-> outcome]))

\* the handler of except Exception in _rollback and _investigate
ExceptException(what, outcome, calls, cl, taken) ==
    Returned([status |-> "error", message |-> <<"Failed to ", what>>,
              error |-> outcome], calls, cl, taken)

\* KubernetesRemediator._restart(service_name, pod_name, action)
restart(dry_run, cl, taken, service_name, pod_name, action, oc) ==
    IF dry_run
    THEN Returned([status |-> "dry_run", message |-> <<"Would restart pod(s) for ", service_name>>,
                   action |-> "restart"], <<>>, cl, taken)
    ELSE IF pod_name # None
    THEN LET del == [call |-> "delete_namespaced_pod", name |-> pod_name[1],
                     grace_period_seconds |-> Get(action.parameters, "grace_period", 30)]
             o == OnPod(pod_name[1], oc.read)
             result == [status |-> "success", message |-> <<"Restarted pod ", pod_name[1]>>,
                        action |-> "restart", target |-> pod_name[1]]
         IN  IF o = "ok"
             THEN Returned(result, <<del>>, cl, Append(taken, result))
             ELSE ExceptApiException("restart", o, <<del>>, cl, taken)
    ELSE LET read == [call |-> "read_namespaced_deployment", name |-> service_name]
             patch == [call |-> "patch_namespaced_deployment", name |-> service_name,
                       replicas |-> cl.replicas, restartedAt |-> TRUE]
             o1 == OnDeployment(service_name, oc.read)
             o2 == OnDeployment(service_name, oc.write)
             result == [status |-> "success",
                        message |-> <<"Triggered rolling restart of ", service_name>>,
                        action |-> "restart", target |-> service_name]
         IN  IF o1 # "ok" THEN ExceptApiException("restart", o1, <<read>>, cl, taken)
             ELSE IF o2 # "ok" THEN ExceptApiException("restart", o2, <<read, patch>>, cl, taken)
             ELSE Returned(result, <<read, patch>>, cl, Append(taken, result))

\* NewReplicas without the floor of the scale-down branch
NewReplicas_NoFloor(current_replicas, spec_replicas, direction, increment, to_spec) ==
    IF to_spec THEN spec_replicas
    ELSE IF direction = "up" THEN current_replicas + increment
    ELSE current_replicas - increment

\* the new replica count of _scale
NewReplicas(current_replicas, spec_replicas, direction, increment, to_spec) ==
    IF to_spec THEN spec_replicas
    ELSE IF direction = "up" THEN current_replicas + increment
    ELSE Max(1, current_replicas - increment)

\* KubernetesRemediator._scale(service_name, action)
scale(dry_run, cl, taken, service_name, action, oc) ==
    LET direction == Get(action.parameters, "direction", "up")
        increment == Get(action.parameters, "increment", 1)
        to_spec   == Get(action.parameters, "to_spec", FALSE)
    IN
    IF dry_run
    THEN Returned([status |-> "dry_run",
                   message |-> <<"Would scale ", service_name, direction, " by ", increment>>,
                   action |-> "scale"], <<>>, cl, taken)
    ELSE LET current_replicas == cl.replicas
             spec_replicas == cl.replicas
             new_replicas == NewReplicas(current_replicas, spec_replicas,
                                         direction, increment, to_spec)
             read == [call |-> "read_namespaced_deployment", name |-> service_name]
             patch == [call |-> "patch_namespaced_deployment", name |-> service_name,
                       replicas |-> new_replicas, restartedAt |-> FALSE]
             o1 == OnDeployment(service_name, oc.read)
             o2 == OnDeployment(service_name, oc.write)
             result == [status |-> "success",
                        message |-> <<"Scaled ", service_name, " from ", current_replicas,
                                      " to ", new_replicas>>,
                        action |-> "scale", target |-> service_name,
                        from |-> current_replicas, to |-> new_replicas]
         IN  IF o1 # "ok" THEN ExceptApiException("scale", o1, <<read>>, cl, taken)
             ELSE IF o2 # "ok" THEN ExceptApiException("scale", o2, <<read, patch>>, cl, taken)
             ELSE Returned(result, <<read, patch>>, [cl EXCEPT !.replicas = new_replicas],
                           Append(taken, result))

\* _rollback testing dry_run after it has read the deployment
rollback_DryRunAfterRead(dry_run, cl, taken, service_name, action, oc) ==
    LET revisions_back == Get(action.parameters, "revisions_back", 1)
        current_revision == cl.revision
        read == [call |-> "read_namespaced_deployment", name |-> service_name]
        undo == [call |-> "kubectl rollout undo", name |-> service_name,
                 to_revision |-> current_revision - revisions_back]
        o1 == OnDeployment(service_name, oc.read)
        o2 == OnDeployment(service_name, oc.write)
        result == [status |-> "success",
                   message |-> <<"Rolled back ", service_name, " by ", revisions_back>>,
                   action |-> "rollback", target |-> service_name,
                   from_revision |-> current_revision]
    IN  IF o1 # "ok" THEN ExceptException("rollback", o1, <<read>>, cl, taken)
        ELSE IF dry_run
        THEN Returned([status |-> "dry_run",
                       message |-> <<"Would rollback ", service_name, " by ", revisions_back>>,
                       action |-> "rollback"], <<read>>, cl, taken)
        ELSE IF o2 # "ok" THEN ExceptException("rollback", o2, <<read, undo>>, cl, taken)
        ELSE Returned(result, <<read, undo>>, [cl EXCEPT !.revision = @ + 1],
                      Append(taken, result))

\* KubernetesRemediator._rollback(service_name, action)
rollback(dry_run, cl, taken, service_name, action, oc) ==
    LET revisions_back == Get(action.parameters, "revisions_back", 1) IN
    IF dry_run
    THEN Returned([status |-> "dry_run",
                   message |-> <<"Would rollback ", service_name, " by ", revisions_back>>,
                   action |-> "rollback"], <<>>, cl, taken)
    ELSE LET current_revision == cl.revision
             read == [call |-> "read_namespaced_deployment", name |-> service_name]
             undo == [call |-> "kubectl rollout undo", name |-> service_name,
                      to_revision |-> current_revision - revisions_back]
             o1 == OnDeployment(service_name, oc.read)
             o2 == OnDeployment(service_name, oc.write)
             result == [status |-> "success",
                        message |-> <<"Rolled back ", service_name, " by ", revisions_back>>,
                        action |-> "rollback", target |-> service_name,
                        from_revision |-> current_revision]
         IN  IF o1 # "ok" THEN ExceptException("rollback", o1, <<read>>, cl, taken)
             ELSE IF o2 # "ok" THEN ExceptException("rollback", o2, <<read, undo>>, cl, taken)
             ELSE Returned(result, <<read, undo>>, [cl EXCEPT !.revision = @ + 1],
                           Append(taken, result))

\* KubernetesRemediator._investigate(service_name, pod_name, action)
investigate(dry_run, cl, taken, service_name, pod_name, action, oc) ==
    LET read_pod == IF pod_name # None
                    THEN <<[call |-> "read_namespaced_pod", name |-> pod_name[1]]>> ELSE <<>>
        read_log == IF pod_name # None
                    THEN <<[call |-> "read_namespaced_pod_log", name |-> pod_name[1]]>> ELSE <<>>
        read_dep == <<[call |-> "read_namespaced_deployment", name |-> service_name]>>
        events   == <<[call |-> "list_namespaced_event",
                       name |-> IF pod_name # None THEN pod_name[1] ELSE service_name]>>
        o_pod == IF pod_name # None THEN OnPod(pod_name[1], oc.pod) ELSE "ok"
        o_log == IF pod_name # None THEN OnPod(pod_name[1], oc.log) ELSE "ok"
        o_dep == OnDeployment(service_name, oc.deployment)
        data == (IF pod_name # None THEN {"pod_status"} ELSE {})
                \cup (IF pod_name # None /\ o_log = "ok" THEN {"recent_logs"} ELSE {})
                \cup (IF o_dep = "ok" THEN {"deployment"} ELSE {})
                \cup (IF oc.events = "ok" THEN {"events"} ELSE {})
    IN  IF o_pod # "ok"
        THEN ExceptException("gather diagnostics", o_pod, read_pod, cl, taken)
        ELSE Returned([status |-> "investigation",
                       message |-> <<"Gathered diagnostic data - requires manual review">>,
                       action |-> "investigate", data |-> data],
                      read_pod \o read_log \o read_dep \o events, cl, taken)

\* execute handing every action type it does not know to _investigate
execute_UnknownAsInvestigate(dry_run, cl, taken, action, alert, oc) ==
    LET service_name == Get(Get(alert, "labels", <<>>), "service", "unknown")
        pod_name == IF "pod" \in DOMAIN Get(alert, "labels", <<>>)
                    THEN Some(alert.labels["pod"]) ELSE None
    IN  IF action.action_type = "restart"
        THEN restart(dry_run, cl, taken, service_name, pod_name, action, oc)
        ELSE IF action.action_type = "scale"
        THEN scale(dry_run, cl, taken, service_name, action, oc)
        ELSE IF action.action_type = "rollback"
        THEN rollback(dry_run, cl, taken, service_name, action, oc)
        ELSE investigate(dry_run, cl, taken, service_name, pod_name, action, oc)

\* execute that does not read the pod label of the alert
execute_WithoutPodLabel(dry_run, cl, taken, action, alert, oc) ==
    LET service_name == Get(Get(alert, "labels", <<>>), "service", "unknown")
        pod_name == None
    IN  IF action.action_type = "restart"
        THEN restart(dry_run, cl, taken, service_name, pod_name, action, oc)
        ELSE IF action.action_type = "scale"
        THEN scale(dry_run, cl, taken, service_name, action, oc)
        ELSE IF action.action_type = "rollback"
        THEN rollback(dry_run, cl, taken, service_name, action, oc)
        ELSE IF action.action_type = "investigate"
        THEN investigate(dry_run, cl, taken, service_name, pod_name, action, oc)
        ELSE Returned([status |-> "error",
                       message |-> <<"Unknown action type: ", action.action_type>>],
                      <<>>, cl, taken)

\* KubernetesRemediator.execute(action, alert)
execute(dry_run, cl, taken, action, alert, oc) ==
    LET service_name == Get(Get(alert, "labels", <<>>), "service", "unknown")
        pod_name == IF "pod" \in DOMAIN Get(alert, "labels", <<>>)
                    THEN Some(alert.labels["pod"]) ELSE None
    IN  IF action.action_type = "restart"
        THEN restart(dry_run, cl, taken, service_name, pod_name, action, oc)
        ELSE IF action.action_type = "scale"
        THEN scale(dry_run, cl, taken, service_name, action, oc)
        ELSE IF action.action_type = "rollback"
        THEN rollback(dry_run, cl, taken, service_name, action, oc)
        ELSE IF action.action_type = "investigate"
        THEN investigate(dry_run, cl, taken, service_name, pod_name, action, oc)
        ELSE Returned([status |-> "error",
                       message |-> <<"Unknown action type: ", action.action_type>>],
                      <<>>, cl, taken)

\* the cluster calls that change the cluster
MutatingCalls == {"delete_namespaced_pod", "patch_namespaced_deployment", "kubectl rollout undo"}

----------------------------------------------------------------------------
(* SlackNotifier *)

(* What the webhook does with one post: "200", "non200" (another status    *)
(* code) or "raises" (requests.post raises: unreachable, timed out).       *)

\* SlackNotifier._send(message): the result and the counters it leaves
send(nt, post) ==
    IF post = "200"
    THEN [ret |-> TRUE, notifier |-> [nt EXCEPT !.notifications_sent = @ + 1], posts |-> 1]
    ELSE [ret |-> FALSE, notifier |-> [nt EXCEPT !.notifications_failed = @ + 1], posts |-> 1]

\* _build_alert_message raises: severity.upper() on a severity label that is
\* no string.  The value of the severity label is Str(text) or, when the
\* payload gives a number, Num(n).
BuildAlertMessageRaises(alert, action, execution_result, auto_executed) ==
    Get(Get(alert, "labels", <<>>), "severity", [t |-> "str", v |-> "warning"]).t # "str"

\* SlackNotifier.send_alert_notification(alert, action, execution_result,
\* auto_executed): the result, the counters it leaves, and whether it raised
send_alert_notification(nt, alert, action, execution_result, auto_executed, post) ==
    IF ~nt.enabled THEN [ret |-> FALSE, notifier |-> nt, posts |-> 0, raised |-> FALSE]
    ELSE IF BuildAlertMessageRaises(alert, action, execution_result, auto_executed)
    THEN [ret |-> FALSE, notifier |-> nt, posts |-> 0, raised |-> TRUE]
    ELSE send(nt, post) @@ [raised |-> FALSE]

----------------------------------------------------------------------------
(* main.process_alert *)

\* a handler of process_alert that catches the errors of the notifier only
ProcessAlertCatches_NotifyErrorsOnly(exc) == exc = "notify raised"

\* a handler of process_alert that catches the errors of the executor only
ProcessAlertCatches_ExecuteErrorsOnly(exc) == exc = "execute raised"

\* except Exception, in process_alert
ProcessAlertCatches(exc) == exc \in {"execute raised", "notify raised"}

\* the call of the notifier that drops the execution result
NotifyArguments_NoResult(action, execution_result, should_auto) ==
    [action |-> action, execution_result |-> None, auto_executed |-> should_auto]

\* the arguments process_alert hands to notifier.send_alert_notification
NotifyArguments(action, execution_result, should_auto) ==
    [action |-> action, execution_result |-> execution_result,
     auto_executed |-> should_auto]

\* process_alert(alert): the globals and the objects' state it leaves, and
\* what it did.  st, cl, taken and nt are the state of the classifier, the
\* cluster, the remediator and the notifier; outcome, oc and post are what the
\* reasoning service, the cluster and the chat webhook do when called.
process_alert_classified(alerts, actions, cl, taken, nt, alert, post, action, g, e) ==
    LET alert_name == Get(Get(alert, "labels", <<>>), "alertname", "Unknown")
        should_auto == g.ret
        returned == should_auto /\ ~e.raised
        execution_result == IF should_auto THEN Some(e.ret) ELSE None
        args == NotifyArguments(action, execution_result, should_auto)
        n == send_alert_notification(nt, alert, args.action, args.execution_result,
                                     args.auto_executed, post)
        \* the exception that leaves the try block, if any
        exc == IF should_auto /\ e.raised THEN Some("execute raised")
               ELSE IF n.raised THEN Some("notify raised")
               ELSE None
        \* what the steps did before the try block was left
        done ==
            [action_history |->
                 IF returned
                 THEN Append(actions, [alert |-> alert_name, action |-> action.action_type,
                                       result |-> e.ret])
                 ELSE actions,
             stats |-> g.stats,
             cluster |-> IF should_auto THEN e.cluster ELSE cl,
             actions_taken |-> IF should_auto THEN e.taken ELSE taken,
             notifier |-> IF should_auto /\ e.raised THEN nt ELSE n.notifier,
             action |-> action, should_auto |-> should_auto, executed |-> should_auto,
             calls |-> IF should_auto THEN e.calls ELSE <<>>,
             notified |-> IF should_auto /\ e.raised THEN 0 ELSE 1,
             notification |-> IF should_auto /\ e.raised THEN None ELSE args.execution_result,
             notify_args |-> IF should_auto /\ e.raised THEN None ELSE Some(args),
             \* the steps in the order the code takes them
             steps |-> <<"classify", "should_auto_execute">>
                         \o (IF should_auto THEN <<"execute">> ELSE <<>>)
                         \o (IF should_auto /\ e.raised THEN <<>> ELSE <<"notify">>)
                         \o (IF exc = None THEN <<"completed">>
                             ELSE IF ProcessAlertCatches(exc[1]) THEN <<"failed">>
                             ELSE <<>>),
             escaped |-> exc]
    IN
    IF exc = None
    THEN done @@
         [alert_history |->
              Append(alerts, [alert |-> alert, status |-> "completed",
                              action |-> [type |-> action.action_type,
                                          confidence |-> action.confidence,
                                          auto_executed |-> should_auto,
                                          result |-> execution_result]]),
          raised |-> FALSE,
          ret |-> [alert |-> alert_name, action |-> action.action_type,
                   confidence |-> action.confidence, auto_executed |-> should_auto,
                   execution_result |-> execution_result]]
    ELSE IF ProcessAlertCatches(exc[1])
    THEN \* the handler of except Exception
         done @@
         [alert_history |-> Append(alerts, [alert |-> alert, status |-> "failed",
                                            error |-> exc[1]]),
          raised |-> FALSE,
          ret |-> [alert |-> alert_name, status |-> "error", error |-> exc[1]]]
    ELSE \* the exception leaves process_alert
         done @@
         [alert_history |-> Append(alerts, [alert |-> alert, status |-> "processing"]),
          raised |-> TRUE,
          ret |-> [raised |-> exc[1]]]

\* process_alert: the classification, the decision and the execution are
\* computed once, as the code assigns them to the locals action, should_auto
\* and execution_result; e is looked at only when should_auto holds
process_alert(alerts, actions, st, cl, taken, nt, dry, available, alert, outcome, oc, post) ==
    CHOOSE r \in
        UNION { UNION { { process_alert_classified(alerts, actions, cl, taken, nt, alert,
                                                   post, c.ret, g, e)
                          : e \in {execute(dry, cl, taken, c.ret, alert, oc)} }
                        : g \in {should_auto_execute(c.stats, c.ret, dry)} }
                : c \in {HybridClassifier_classify(st, available, alert, outcome)} } : TRUE

----------------------------------------------------------------------------
(* The state every specification starts from: the objects as constructed   *)

InitObjects ==
    /\ stats = [total_alerts |-> 0, rule_based_matches |-> 0, ai_analysis_used |-> 0,
                auto_executed |-> 0, manual_review |-> 0]
    /\ alert_history = <<>>
    /\ action_history = <<>>
    /\ actions_taken = <<>>
    /\ notifier \in [enabled : BOOLEAN, notifications_sent : {0}, notifications_failed : {0}]
    /\ last = [op |-> "none"]

----------------------------------------------------------------------------
(* SpecClassifier: a HybridClassifier object, called any number of times   *)

\* descriptions that match no rule, and one that matches high_memory_usage
NoRuleDescription == Join(<< <<"l","e","a","k">> >>)
HighMemoryDescription == Join(<< <<"h","i","g","h">>, <<"M","e","m","o","r","y">> >>)

ClassifierAlerts ==
    { [labels |-> [alertname |-> n], annotations |-> [description |-> d]] :
        n \in {"PodCrashLooping", "PodNotReady", "DiskPressure"},
        d \in {NoRuleDescription, HighMemoryDescription} }

Num(n) == [t |-> "num", v |-> n]
Str(x) == [t |-> "str", v |-> x]

Reply(prose, fence, payload) ==
    [kind |-> "reply", reply |-> [prose |-> prose, fence |-> fence, payload |-> payload]]
Object(obj) == [kind |-> "object", obj |-> obj]

\* what the reasoning service answers in SpecClassifier and in Spec
AiOutcomes ==
    { [kind |-> "raises"],
      Reply(FALSE, "none", [kind |-> "not_json"]),
      Reply(FALSE, "json", [kind |-> "array"]),
      Reply(TRUE, "json",
            Object([action_type |-> "restart", target |-> "pod", confidence |-> Num(900000),
                    reason |-> "out of memory", parameters |-> [grace_period |-> 10]])),
      Reply(FALSE, "json",
            Object([action_type |-> "restart", target |-> "pod", confidence |-> Num(900000),
                    reason |-> "out of memory", parameters |-> [grace_period |-> 10]])),
      Reply(FALSE, "bare",
            Object([action_type |-> "scale", target |-> "deployment",
                    confidence |-> Num(600000), reason |-> "load",
                    parameters |-> [direction |-> "down", increment |-> 1]])),
      Reply(FALSE, "none",
            Object([action_type |-> "investigate", target |-> "pod",
                    confidence |-> Num(1000000), reason |-> "unclear", parameters |-> <<>>])),
      Reply(FALSE, "none", Object([action_type |-> "rollback", confidence |-> Str("high")])),
      Reply(FALSE, "js", Object([action_type |-> "rollback", confidence |-> Num(990000)])),
      Reply(FALSE, "none",
            Object([action_type |-> "delete", target |-> "pod", confidence |-> Num(1500000),
                    reason |-> "stuck", parameters |-> <<>>])),
      Reply(FALSE, "none", Object(<<>>)) }

\* the confidences should_auto_execute is asked about, in millionths: the
\* threshold, its two neighbours, the ends of [0, 1] and values outside it
GateConfidences == {-100000, 0, 700000, 849999, 850000, 850001, 1000000, 1500000}

\* the action types should_auto_execute is asked about: the four of the
\* contract and one outside it
GateActionTypes == {"restart", "scale", "rollback", "investigate", "delete"}

GateActions ==
    { RemediationAction(t, "deployment", <<>>, c, <<"reason">>) :
        t \in GateActionTypes, c \in GateConfidences }

ClassifierInit ==
    /\ InitObjects
    /\ threads = <<>>
    /\ orders = <<>>
    /\ stock = <<>>
    /\ ~notifier.enabled
    /\ cluster = [replicas |-> 1]
    /\ DRY_RUN = FALSE
    /\ ai_available \in BOOLEAN
    /\ input = <<>>

ClassifierClassify ==
    /\ stats.total_alerts < MaxCalls
    /\ \E alert \in ClassifierAlerts, outcome \in AiOutcomes :
          LET r == HybridClassifier_classify(stats, ai_available, alert, outcome) IN
          /\ stats' = r.stats
          /\ last' = [op |-> "HybridClassifier.classify", alert |-> alert,
                      outcome |-> outcome, ret |-> r.ret,
                      rule_calls |-> r.rule_calls, ai_calls |-> r.ai_calls,
                      ai_requests |-> r.ai_requests]
    /\ UNCHANGED <<alert_history, action_history, actions_taken, cluster,
                   notifier, DRY_RUN, ai_available, input, threads, orders,
                   stock>>

ClassifierShouldAutoExecute ==
    /\ stats.auto_executed < MaxCalls
    /\ \E action \in GateActions, dry_run \in BOOLEAN :
          LET r == should_auto_execute(stats, action, dry_run) IN
          /\ stats' = r.stats
          /\ last' = [op |-> "HybridClassifier.should_auto_execute", action |-> action,
                      dry_run |-> dry_run, ret |-> r.ret, action_after |-> r.action]
    /\ UNCHANGED <<alert_history, action_history, actions_taken, cluster,
                   notifier, DRY_RUN, ai_available, input, threads, orders,
                   stock>>

ClassifierNext == ClassifierClassify \/ ClassifierShouldAutoExecute

SpecClassifier == ClassifierInit /\ [][ClassifierNext]_vars

----------------------------------------------------------------------------
(* SpecAnalyzer: one call of AIAnalyzer.analyze_alert                      *)

\* the reply format of the system prompt, filled in
FullObject ==
    [action_type |-> "restart", target |-> "pod", confidence |-> Num(900000),
     reason |-> "out of memory", parameters |-> [grace_period |-> 10]]

RequiredKeys == {"action_type", "target", "confidence", "reason", "parameters"}

\* the JSON objects of a reply: the full object with any of its keys left
\* out, and objects whose values are outside the format
AnalyzerObjects ==
    { Restrict(FullObject, K) : K \in SUBSET RequiredKeys }
    \cup { [FullObject EXCEPT !.confidence = Str("high")],
           [FullObject EXCEPT !.confidence = Num(1500000)],
           [FullObject EXCEPT !.action_type = "delete"],
           [FullObject EXCEPT !.action_type = "investigate", !.confidence = Num(300000)] }

AnalyzerPayloads ==
    { [kind |-> "not_json"], [kind |-> "array"] } \cup { Object(o) : o \in AnalyzerObjects }

\* what the reasoning service does with the request
AnalyzerOutcomes ==
    { [kind |-> "raises"], [kind |-> "no_content"] }
    \cup { Reply(prose, fence, payload) :
             prose \in BOOLEAN, fence \in {"none", "bare", "json", "js"},
             payload \in AnalyzerPayloads }

AnalyzerInit ==
    /\ InitObjects
    /\ threads = <<>>
    /\ orders = <<>>
    /\ stock = <<>>
    /\ ~notifier.enabled
    /\ cluster = [replicas |-> 1]
    /\ DRY_RUN = FALSE
    /\ ai_available \in BOOLEAN
    /\ input \in [alert : {a \in ClassifierAlerts : PatternMatcher_classify(a) = None},
                  outcome : AnalyzerOutcomes]

AnalyzerAnalyze ==
    /\ last.op = "none"
    /\ LET r == analyze_alert(ai_available, input.alert, input.outcome) IN
       last' = [op |-> "AIAnalyzer.analyze_alert", alert |-> input.alert,
                outcome |-> input.outcome, ret |-> r.ret, raised |-> r.raised,
                requests |-> r.requests]
    /\ UNCHANGED <<stats, alert_history, action_history, actions_taken, cluster,
                   notifier, DRY_RUN, ai_available, input, threads, orders,
                   stock>>

AnalyzerNext == AnalyzerAnalyze

SpecAnalyzer == AnalyzerInit /\ [][AnalyzerNext]_vars

----------------------------------------------------------------------------
(* SpecMatcher: PatternMatcher.classify applied to every alert             *)

MatcherInit ==
    /\ InitObjects
    /\ threads = <<>>
    /\ orders = <<>>
    /\ stock = <<>>
    /\ ~notifier.enabled
    /\ cluster = [replicas |-> 1]
    /\ DRY_RUN = FALSE
    /\ ai_available = FALSE
    /\ \E alert \in MatcherAlerts : input = [alert |-> alert]

MatcherClassify ==
    /\ last.op = "none"
    /\ last' = [op |-> "PatternMatcher.classify", alert |-> input.alert,
                ret |-> PatternMatcher_classify(input.alert)]
    /\ UNCHANGED <<stats, alert_history, action_history, actions_taken, cluster,
                   notifier, DRY_RUN, ai_available, input, threads, orders,
                   stock>>

MatcherNext == MatcherClassify

SpecMatcher == MatcherInit /\ [][MatcherNext]_vars


----------------------------------------------------------------------------
(* SpecExecutor: one call of KubernetesRemediator.execute, on every action, *)
(* alert, cluster state and outcome of the cluster calls                    *)


\* the parameters of the scale actions: every subset of the three keys _scale
\* reads, with every direction, increment and to_spec
ScaleParameters ==
    { Restrict([direction |-> d, increment |-> i, to_spec |-> t], keys) :
        d \in {"up", "down", "sideways"},
        i \in (-MaxIncrement)..MaxIncrement,
        t \in BOOLEAN,
        keys \in SUBSET {"direction", "increment", "to_spec"} }

ExecutorActions ==
    { RemediationAction("restart", "pod", p, 950000, <<"reason">>) :
        p \in {<<>>, [grace_period |-> 60]} }
    \cup { RemediationAction("scale", "deployment", p, 950000, <<"reason">>) :
             p \in ScaleParameters }
    \cup { RemediationAction("rollback", "deployment", p, 950000, <<"reason">>) :
             p \in {<<>>, [revisions_back |-> 1], [revisions_back |-> 2]} }
    \cup { RemediationAction("investigate", "pod", <<>>, 950000, <<"reason">>),
           RemediationAction("delete", "pod", <<>>, 950000, <<"reason">>) }

\* the alerts: with or without the service and pod labels, naming the objects
\* the cluster holds or a pod it does not hold
ExecutorAlerts ==
    { [labels |-> Restrict([alertname |-> "Any", service |-> DeploymentName, pod |-> pd],
                           {"alertname"} \cup keys)] :
        pd \in {PodName, "gone-1"}, keys \in SUBSET {"service", "pod"} }

CallOutcomes == {"ok", "api_error", "other_error"}
FetchOutcomes == {"ok", "other_error"}

\* the outcomes of the cluster calls the handler of an action type makes
OutcomesFor(action_type) ==
    IF action_type = "investigate"
    THEN [read : {"ok"}, write : {"ok"}, pod : FetchOutcomes, log : FetchOutcomes,
          deployment : FetchOutcomes, events : FetchOutcomes]
    ELSE IF action_type \in {"restart", "scale", "rollback"}
    THEN [read : CallOutcomes, write : CallOutcomes, pod : {"ok"}, log : {"ok"},
          deployment : {"ok"}, events : {"ok"}]
    ELSE [read : {"ok"}, write : {"ok"}, pod : {"ok"}, log : {"ok"},
          deployment : {"ok"}, events : {"ok"}]

\* a result an earlier execution appended to actions_taken
EarlierResult ==
    [status |-> "success", message |-> <<"Restarted pod ", PodName>>,
     action |-> "restart", target |-> PodName]

ExecutorInit ==
    /\ InitObjects
    /\ threads = <<>>
    /\ orders = <<>>
    /\ stock = <<>>
    /\ ~notifier.enabled
    /\ cluster \in [replicas : 0..MaxReplicas, revision : 1..2]
    /\ DRY_RUN \in BOOLEAN
    /\ ai_available = FALSE
    /\ \E action \in ExecutorActions, alert \in ExecutorAlerts, before \in 0..1 :
          \E oc \in OutcomesFor(action.action_type) :
              input = [action |-> action, alert |-> alert, oc |-> oc, before |-> before]

\* the executions before the one under study
ExecutorEarlier ==
    /\ last.op = "none"
    /\ Len(actions_taken) < input.before
    /\ actions_taken' = Append(actions_taken, EarlierResult)
    /\ UNCHANGED <<stats, alert_history, action_history, cluster, notifier,
                   DRY_RUN, ai_available, last, input, threads, orders, stock>>

ExecutorExecute ==
    /\ last.op = "none"
    /\ Len(actions_taken) = input.before
    /\ LET r == execute(DRY_RUN, cluster, actions_taken, input.action, input.alert, input.oc)
       IN  /\ cluster' = r.cluster
           /\ actions_taken' = r.taken
           /\ last' = [op |-> "KubernetesRemediator.execute", action |-> input.action,
                       alert |-> input.alert, oc |-> input.oc, raised |-> r.raised,
                       ret |-> r.ret, calls |-> r.calls]
    /\ UNCHANGED <<stats, alert_history, action_history, notifier,
                   DRY_RUN, ai_available, input, threads, orders, stock>>

ExecutorNext == ExecutorEarlier \/ ExecutorExecute

SpecExecutor == ExecutorInit /\ [][ExecutorNext]_vars

----------------------------------------------------------------------------
(* SpecExecutions: a KubernetesRemediator object, execute called any number *)
(* of times; last.results is the sequence of the results the calls gave     *)

\* KubernetesRemediator.get_stats()
get_stats(taken, dry_run) ==
    LET ByType(type) ==
            Cardinality({ i \in 1..Len(taken) : Get(taken[i], "action", "") = type })
    IN  [total_actions |-> Len(taken),
         actions_by_type |-> [restart |-> ByType("restart"), scale |-> ByType("scale"),
                              rollback |-> ByType("rollback")],
         dry_run_mode |-> dry_run]

ExecutionsActions ==
    { RemediationAction("restart", "pod", <<>>, 950000, <<"reason">>),
      RemediationAction("scale", "deployment", [direction |-> "up", increment |-> 1],
                        950000, <<"reason">>),
      RemediationAction("rollback", "deployment", <<>>, 950000, <<"reason">>),
      RemediationAction("investigate", "pod", <<>>, 950000, <<"reason">>),
      RemediationAction("delete", "pod", <<>>, 950000, <<"reason">>) }

ExecutionsAlerts ==
    { [labels |-> [alertname |-> "Any", service |-> DeploymentName, pod |-> PodName]],
      [labels |-> [alertname |-> "Any", service |-> DeploymentName]],
      [labels |-> [alertname |-> "Any"]] }

ExecutionsInit ==
    /\ InitObjects
    /\ threads = <<>>
    /\ orders = <<>>
    /\ stock = <<>>
    /\ ~notifier.enabled
    /\ cluster = [replicas |-> 2, revision |-> 2]
    /\ DRY_RUN \in BOOLEAN
    /\ ai_available = FALSE
    /\ input = <<>>

ExecutionsExecute ==
    /\ Len(Get(last, "results", <<>>)) < MaxCalls
    /\ \E action \in ExecutionsActions, alert \in ExecutionsAlerts :
       \E oc \in OutcomesFor(action.action_type) :
       \E r \in {execute(DRY_RUN, cluster, actions_taken, action, alert, oc)} :
           /\ cluster' = r.cluster
           /\ actions_taken' = r.taken
           /\ last' = [op |-> "KubernetesRemediator.execute", action |-> action,
                       alert |-> alert, oc |-> oc, raised |-> r.raised,
                       ret |-> r.ret, calls |-> r.calls,
                       results |-> Append(Get(last, "results", <<>>), r.ret)]
    /\ UNCHANGED <<stats, alert_history, action_history, notifier,
                   DRY_RUN, ai_available, input, threads, orders, stock>>

ExecutionsNext == ExecutionsExecute

SpecExecutions == ExecutionsInit /\ [][ExecutionsNext]_vars

----------------------------------------------------------------------------
(* Spec: the agent as main.py builds it, given alerts one after the other  *)

CrashLoopDescription == Join(<< <<"c","r","a","s","h">>, <<"L","O","O","P">> >>)

\* the alerts of Spec: rules whose action is a restart, a scale at the
\* threshold, a rollback and a scale below the threshold, and an alert no
\* rule matches
PipelineAlerts ==
    { [labels |-> [alertname |-> "PodCrashLooping", service |-> DeploymentName,
                   pod |-> PodName],
       annotations |-> [description |-> CrashLoopDescription]],
      [labels |-> [alertname |-> "HighCPUUsage", service |-> DeploymentName],
       annotations |-> <<>>],
      [labels |-> [alertname |-> "HighErrorRate", service |-> DeploymentName],
       annotations |-> <<>>],
      [labels |-> [alertname |-> "HighMemoryUsage", service |-> DeploymentName,
                   severity |-> Str("critical")],
       annotations |-> <<>>],
      [labels |-> [alertname |-> "ServiceDown", service |-> DeploymentName,
                   severity |-> Num(1)],
       annotations |-> <<>>],
      [labels |-> [alertname |-> "DiskPressure", service |-> DeploymentName],
       annotations |-> [description |-> NoRuleDescription]] }

\* what the reasoning service answers in Spec
PipelineAiOutcomes ==
    { [kind |-> "raises"],
      Reply(FALSE, "none", [kind |-> "not_json"]),
      Reply(FALSE, "json",
            Object([action_type |-> "restart", target |-> "pod", confidence |-> Num(900000),
                    reason |-> "out of memory", parameters |-> [grace_period |-> 10]])),
      Reply(FALSE, "none",
            Object([action_type |-> "investigate", target |-> "pod",
                    confidence |-> Num(1000000), reason |-> "unclear", parameters |-> <<>>])) }

PostOutcomes == {"200", "non200", "raises"}

\* input is the number of alerts of the payload that webhook has still to
\* hand to process_alert (0: no request is being served)
Init ==
    /\ InitObjects
    /\ threads = <<>>
    /\ orders = <<>>
    /\ stock = <<>>
    /\ cluster = [replicas |-> 2, revision |-> 2]
    /\ DRY_RUN \in BOOLEAN
    /\ ai_available \in BOOLEAN
    /\ input = 0

\* webhook receives a payload of n alerts
Webhook ==
    /\ input = 0
    /\ \E n \in 1..(MaxAlerts - Len(alert_history)) :
          /\ input' = n
          /\ last' = [op |-> "webhook", alerts |-> n]
    /\ UNCHANGED <<stats, alert_history, action_history, actions_taken, cluster,
                   notifier, DRY_RUN, ai_available, threads, orders, stock>>

\* one turn of the loop of webhook: one call of process_alert; the outcomes
\* of calls the configuration rules out (the reasoner when unavailable, the
\* cluster in dry-run, the webhook when disabled) are not drawn
ProcessAlert ==
    /\ input > 0
    /\ \E alert \in PipelineAlerts :
       \E outcome \in IF ai_available /\ PatternMatcher_classify(alert) = None
                      THEN PipelineAiOutcomes ELSE {[kind |-> "raises"]} :
       \E oc \in IF DRY_RUN THEN OutcomesFor("none") ELSE OutcomesFor("restart") :
       \E post \in IF notifier.enabled THEN PostOutcomes ELSE {"200"} :
       \E r \in {process_alert(alert_history, action_history, stats, cluster,
                                actions_taken, notifier, DRY_RUN, ai_available,
                                alert, outcome, oc, post)} :
              /\ alert_history' = r.alert_history
              /\ action_history' = r.action_history
              /\ stats' = r.stats
              /\ cluster' = r.cluster
              /\ actions_taken' = r.actions_taken
              /\ notifier' = r.notifier
              \* an exception that leaves process_alert ends the request
              /\ input' = IF r.raised THEN 0 ELSE input - 1
              /\ last' = [op |-> "process_alert", alert |-> alert, action |-> r.action,
                          should_auto |-> r.should_auto, executed |-> r.executed,
                          calls |-> r.calls, oc |-> oc, post |-> post,
                          notified |-> r.notified, notification |-> r.notification,
                          notify_args |-> r.notify_args, steps |-> r.steps,
                          escaped |-> r.escaped, raised |-> r.raised,
                          remaining |-> input, ret |-> r.ret]
    /\ UNCHANGED <<DRY_RUN, ai_available, threads, orders, stock>>

Next == Webhook \/ ProcessAlert

Spec == Init /\ [][Next]_vars

----------------------------------------------------------------------------
(* SpecScenario: the agent as main.py builds it, given one alert of the     *)
(* end-to-end scenarios.  The deployment of the cluster runs 2 replicas and *)
(* was specified with 5; cluster.replicas is deployment.spec.replicas, the  *)
(* one replica count _scale reads, and it holds either number.             *)

PodInCrashLoopDescription ==
    Join(<< <<"p","o","d">>, <<"i","n">>, <<"c","r","a","s","h">>, <<"l","o","o","p">> >>)

TooFewReplicasDescription ==
    Join(<< <<"t","o","o">>, <<"f","e","w">>, <<"r","e","p","l","i","c","a","s">> >>)

\* the crash-loop alert with the alertname label only, with the labels of the
\* deployment and of its pod, and with the label of the deployment only; the
\* alert of a deployment with too few replicas; an alert no rule matches,
\* without and with a severity label that is a number
ScenarioAlerts ==
    { [labels |-> [alertname |-> "PodCrashLooping"],
       annotations |-> [description |-> PodInCrashLoopDescription]],
      [labels |-> [alertname |-> "PodCrashLooping", service |-> DeploymentName,
                   pod |-> PodName],
       annotations |-> [description |-> PodInCrashLoopDescription]],
      [labels |-> [alertname |-> "PodCrashLooping", service |-> DeploymentName],
       annotations |-> [description |-> PodInCrashLoopDescription]],
      [labels |-> [alertname |-> "TooFewReplicas", service |-> DeploymentName],
       annotations |-> [description |-> TooFewReplicasDescription]],
      [labels |-> [alertname |-> "DiskPressure", service |-> DeploymentName],
       annotations |-> [description |-> NoRuleDescription]],
      [labels |-> [alertname |-> "DiskPressure", service |-> DeploymentName,
                   severity |-> Num(1)],
       annotations |-> [description |-> NoRuleDescription]] }

\* input is the alert and what the reasoning service, the cluster and the chat
\* webhook do when called
ScenarioInit ==
    /\ InitObjects
    /\ threads = <<>>
    /\ orders = <<>>
    /\ stock = <<>>
    /\ cluster \in { [replicas |-> n, revision |-> 2] : n \in {2, 5} }
    /\ DRY_RUN \in BOOLEAN
    /\ ai_available \in BOOLEAN
    /\ input \in [alert : ScenarioAlerts, outcome : PipelineAiOutcomes,
                  oc : OutcomesFor("restart"), post : PostOutcomes]

ScenarioProcessAlert ==
    /\ last.op = "none"
    /\ \E r \in {process_alert(alert_history, action_history, stats, cluster,
                               actions_taken, notifier, DRY_RUN, ai_available,
                               input.alert, input.outcome, input.oc, input.post)} :
          /\ alert_history' = r.alert_history
          /\ action_history' = r.action_history
          /\ stats' = r.stats
          /\ cluster' = r.cluster
          /\ actions_taken' = r.actions_taken
          /\ notifier' = r.notifier
          /\ last' = [op |-> "process_alert", alert |-> input.alert, action |-> r.action,
                      should_auto |-> r.should_auto, executed |-> r.executed,
                      calls |-> r.calls, oc |-> input.oc, post |-> input.post,
                      notified |-> r.notified, notification |-> r.notification,
                      notify_args |-> r.notify_args, steps |-> r.steps,
                      escaped |-> r.escaped, raised |-> r.raised,
                      remaining |-> 1, ret |-> r.ret, before |-> cluster]
    /\ UNCHANGED <<DRY_RUN, ai_available, input, threads, orders, stock>>

ScenarioNext == ScenarioProcessAlert

SpecScenario == ScenarioInit /\ [][ScenarioNext]_vars

----------------------------------------------------------------------------
(* SpecConcurrent: the server runs each request in a thread of its own, and *)
(* the threads share the classifier, the notifier and the histories.  A    *)
(* thread runs process_alert for one alert.  The statements                *)
(*     self.stats[k] += 1        self.notifications_sent += 1              *)
(* read the counter, add one and write it back, and another thread can run *)
(* between the read and the write; list.append is one step.                *)

Threads == 1..MaxThreads

StatsCounters == {"total_alerts", "rule_based_matches", "ai_analysis_used",
                  "manual_review", "auto_executed"}
NotifierCounters == {"notifications_sent", "notifications_failed"}
Counters == StatsCounters \cup NotifierCounters

CounterValue(c) == IF c \in StatsCounters THEN stats[c] ELSE notifier[c]

ConcurrentAlerts ==
    { [labels |-> [alertname |-> "HighCPUUsage", service |-> DeploymentName],
       annotations |-> <<>>],
      [labels |-> [alertname |-> "DiskPressure", service |-> DeploymentName],
       annotations |-> [description |-> NoRuleDescription]] }

ConcurrentAiOutcomes ==
    { [kind |-> "raises"],
      Reply(FALSE, "json",
            Object([action_type |-> "restart", target |-> "deployment",
                    confidence |-> Num(900000), reason |-> "out of memory",
                    parameters |-> <<>>])) }

IdleThread ==
    [pc |-> "idle", counter |-> "", reg |-> 0, alert |-> <<>>, entry |-> 0,
     action |-> <<>>, result |-> None, counted |-> {}]

ConcurrentInit ==
    /\ InitObjects
    /\ cluster = [replicas |-> 2, revision |-> 2]
    /\ DRY_RUN = FALSE
    /\ ai_available \in BOOLEAN
    /\ input = <<>>
    /\ threads = [t \in Threads |-> IdleThread]
    /\ orders = <<>>
    /\ stock = <<>>

\* the thread goes on to the statement counter += 1
Increment(th, c) == [th EXCEPT !.pc = "load", !.counter = c]

\* process_alert up to the try block: the entry is appended
ThreadStart(t) ==
    /\ threads[t].pc = "idle"
    /\ \E alert \in ConcurrentAlerts :
          /\ alert_history' = Append(alert_history, [alert |-> alert, status |-> "processing"])
          /\ threads' = [threads EXCEPT ![t] =
                             Increment([@ EXCEPT !.alert = alert,
                                                 !.entry = Len(alert_history) + 1],
                                       "total_alerts")]
    /\ UNCHANGED <<stats, action_history, actions_taken, cluster, notifier,
                   DRY_RUN, ai_available, last, input, orders, stock>>

\* counter += 1, first half: the value is read
ThreadLoad(t) ==
    /\ threads[t].pc = "load"
    /\ threads' = [threads EXCEPT ![t].reg = CounterValue(threads[t].counter),
                                  ![t].pc = "store"]
    /\ UNCHANGED <<stats, alert_history, action_history, actions_taken, cluster,
                   notifier, DRY_RUN, ai_available, last, input, orders,
                   stock>>

\* where a thread goes after it has counted in c
AfterIncrement(th, c) ==
    IF c = "total_alerts"
    THEN LET action == PatternMatcher_classify(th.alert) IN
         IF action # None
         THEN Increment([th EXCEPT !.action = action[1]], "rule_based_matches")
         ELSE IF ai_available THEN Increment(th, "ai_analysis_used")
         ELSE Increment(th, "manual_review")
    ELSE IF c = "rule_based_matches" THEN [th EXCEPT !.pc = "decide"]
    ELSE IF c = "ai_analysis_used" THEN [th EXCEPT !.pc = "analyze"]
    ELSE IF c = "manual_review"
    THEN [th EXCEPT !.pc = "decide", !.action = ManualReviewAction]
    ELSE IF c = "auto_executed" THEN [th EXCEPT !.pc = "execute"]
    ELSE [th EXCEPT !.pc = "complete"]

\* counter += 1, second half: the value read, plus one, is written
ThreadStore(t) ==
    /\ threads[t].pc = "store"
    /\ LET c == threads[t].counter
           th == [threads[t] EXCEPT !.counted = @ \cup {c}]
       IN  /\ IF c \in StatsCounters
              THEN stats' = [stats EXCEPT ![c] = threads[t].reg + 1] /\ UNCHANGED notifier
              ELSE notifier' = [notifier EXCEPT ![c] = threads[t].reg + 1] /\ UNCHANGED stats
           /\ threads' = [threads EXCEPT ![t] = AfterIncrement(th, c)]
    /\ UNCHANGED <<alert_history, action_history, actions_taken, cluster,
                   DRY_RUN, ai_available, last, input, orders, stock>>

\* step 2 of HybridClassifier.classify after the counter: the reasoner is asked
ThreadAnalyze(t) ==
    /\ threads[t].pc = "analyze"
    /\ \E outcome \in ConcurrentAiOutcomes :
          LET ai == analyze_alert(ai_available, threads[t].alert, outcome) IN
          threads' = [threads EXCEPT ![t] =
                          IF ai.ret # None
                          THEN [@ EXCEPT !.pc = "decide", !.action = ai.ret[1]]
                          ELSE Increment(@, "manual_review")]
    /\ UNCHANGED <<stats, alert_history, action_history, actions_taken, cluster,
                   notifier, DRY_RUN, ai_available, last, input, orders,
                   stock>>

\* should_auto_execute up to its counter
ThreadDecide(t) ==
    /\ threads[t].pc = "decide"
    /\ threads' = [threads EXCEPT ![t] =
                       IF should_auto_execute(stats, threads[t].action, DRY_RUN).ret
                       THEN Increment(@, "auto_executed")
                       ELSE [@ EXCEPT !.pc = "notify"]]
    /\ UNCHANGED <<stats, alert_history, action_history, actions_taken, cluster,
                   notifier, DRY_RUN, ai_available, last, input, orders,
                   stock>>

\* an entry of alert_history with its status set
SetStatus(i, status) == [alert_history EXCEPT ![i].status = status]

\* an entry of alert_history with a key set: alert_entry[key] = value
SetKey(i, key, value) ==
    [alert_history EXCEPT ![i] = (key :> value) @@ alert_history[i]]

\* remediator.execute and action_history.append; an exception leaving execute
\* is handled by the except clause of process_alert
ThreadExecute(t) ==
    /\ threads[t].pc = "execute"
    /\ \E oc \in OutcomesFor("restart") :
       \E e \in {execute(DRY_RUN, cluster, actions_taken, threads[t].action,
                         threads[t].alert, oc)} :
          /\ cluster' = e.cluster
          /\ actions_taken' = e.taken
          /\ IF e.raised
             THEN /\ alert_history' = IF ProcessAlertCatches("execute raised")
                                       THEN SetStatus(threads[t].entry, "failed")
                                       ELSE alert_history
                  /\ UNCHANGED action_history
                  /\ threads' = [threads EXCEPT ![t].pc =
                                     IF ProcessAlertCatches("execute raised")
                                     THEN "record_error" ELSE "done"]
             ELSE /\ action_history' =
                        Append(action_history,
                               [alert |-> threads[t].alert.labels.alertname,
                                action |-> threads[t].action.action_type,
                                result |-> e.ret])
                  /\ UNCHANGED alert_history
                  /\ threads' = [threads EXCEPT ![t].pc = "notify",
                                                ![t].result = Some(e.ret)]
    /\ UNCHANGED <<stats, notifier, DRY_RUN, ai_available, last, input, orders,
                   stock>>

\* send_alert_notification up to the counter of _send; the alerts of
\* ConcurrentAlerts carry no severity label, so the message is always built
ThreadNotify(t) ==
    /\ threads[t].pc = "notify"
    /\ \E post \in PostOutcomes :
          threads' = [threads EXCEPT ![t] =
                          IF ~notifier.enabled THEN [@ EXCEPT !.pc = "complete"]
                          ELSE IF post = "200" THEN Increment(@, "notifications_sent")
                          ELSE Increment(@, "notifications_failed")]
    /\ UNCHANGED <<stats, alert_history, action_history, actions_taken, cluster,
                   notifier, DRY_RUN, ai_available, last, input, orders,
                   stock>>

\* alert_entry["status"] = "completed"
ThreadComplete(t) ==
    /\ threads[t].pc = "complete"
    /\ alert_history' = SetStatus(threads[t].entry, "completed")
    /\ threads' = [threads EXCEPT ![t].pc = "record_action"]
    /\ UNCHANGED <<stats, action_history, actions_taken, cluster, notifier,
                   DRY_RUN, ai_available, last, input, orders, stock>>

\* alert_entry["action"] = {...}, the statement after it, and process_alert
\* returns
ThreadRecordAction(t) ==
    /\ threads[t].pc = "record_action"
    /\ alert_history' =
          SetKey(threads[t].entry, "action",
                 [type |-> threads[t].action.action_type,
                  confidence |-> threads[t].action.confidence,
                  auto_executed |-> threads[t].result # None,
                  result |-> threads[t].result])
    /\ threads' = [threads EXCEPT ![t].pc = "done"]
    /\ UNCHANGED <<stats, action_history, actions_taken, cluster, notifier,
                   DRY_RUN, ai_available, last, input, orders, stock>>

\* alert_entry["error"] = str(e), the statement after
\* alert_entry["status"] = "failed", and process_alert returns
ThreadRecordError(t) ==
    /\ threads[t].pc = "record_error"
    /\ alert_history' = SetKey(threads[t].entry, "error", "execute raised")
    /\ threads' = [threads EXCEPT ![t].pc = "done"]
    /\ UNCHANGED <<stats, action_history, actions_taken, cluster, notifier,
                   DRY_RUN, ai_available, last, input, orders, stock>>

ConcurrentNext ==
    \E t \in Threads :
        \/ ThreadStart(t)
        \/ ThreadLoad(t)
        \/ ThreadStore(t)
        \/ ThreadAnalyze(t)
        \/ ThreadDecide(t)
        \/ ThreadExecute(t)
        \/ ThreadNotify(t)
        \/ ThreadComplete(t)
        \/ ThreadRecordAction(t)
        \/ ThreadRecordError(t)

SpecConcurrent == ConcurrentInit /\ [][ConcurrentNext]_vars

\* the steps of a thread that has entered process_alert.  A request arrives or
\* not (ThreadStart), but a thread that runs is scheduled again and again, and
\* its external calls are taken to return or fail
ThreadRun(t) ==
    \/ ThreadLoad(t)
    \/ ThreadStore(t)
    \/ ThreadAnalyze(t)
    \/ ThreadDecide(t)
    \/ ThreadExecute(t)
    \/ ThreadNotify(t)
    \/ ThreadComplete(t)
    \/ ThreadRecordAction(t)
    \/ ThreadRecordError(t)

SpecConcurrentFair == SpecConcurrent /\ \A t \in Threads : WF_vars(ThreadRun(t))

----------------------------------------------------------------------------
(* SpecOrders: the order service.  orders is the orders table: the order   *)
(* of id i is orders[i], and of an order the model keeps the status.       *)
(* stock is the products table of the product service: stock[p] is the     *)
(* stock of product p and whether it is active.  The items of an order and *)
(* the reduce_stock call that fails to reach the product service, if any,  *)
(* are inputs of create_order.                                             *)

\* the product ids of the product service, and an id of no product
ProductIds == 1..2
MissingProductId == 3

\* order_data.items: one to MaxItems items, each a product id and a quantity
OrderItems ==
    UNION { [1..n -> [product_id : ProductIds \cup {MissingProductId}, quantity : 1..2]] :
              n \in 1..MaxItems }

OrderStatus == {"pending", "confirmed", "processing", "shipped", "delivered", "cancelled"}

\* the order ids of the requests: ids of orders and ids of no order
OrderIds == 1..MaxOrders

\* OrderService.get_order(db, order_id)
get_order(db, order_id) ==
    IF order_id \in DOMAIN db THEN Some(db[order_id]) ELSE None

\* ProductService.reduce_stock(db, product_id, quantity): the products it
\* leaves and its result
reduce_stock(st, product_id, quantity) ==
    IF product_id \notin DOMAIN st \/ st[product_id].stock < quantity
    THEN [stock |-> st, ret |-> FALSE]
    ELSE [stock |-> [st EXCEPT ![product_id].stock = @ - quantity], ret |-> TRUE]

\* the first item of order_data.items that the validation loop of create_order
\* rejects, or 0: the product is not found, is not active, or has less stock
\* than the quantity asked
RECURSIVE FirstRejected(_, _, _)
FirstRejected(st, items, k) ==
    IF k > Len(items) THEN 0
    ELSE IF \/ items[k].product_id \notin DOMAIN st
            \/ ~st[items[k].product_id].is_active
            \/ st[items[k].product_id].stock < items[k].quantity
    THEN k
    ELSE FirstRejected(st, items, k + 1)

\* the loop of create_order over reduce_stock, from item k on: it stops at the
\* first call that does not succeed.  The call for item fail_at does not reach
\* the product service (ProductServiceClient.reduce_stock returns False)
RECURSIVE ReduceStockFrom(_, _, _, _)
ReduceStockFrom(st, items, k, fail_at) ==
    IF k > Len(items) THEN [stock |-> st, success |-> TRUE]
    ELSE IF k = fail_at THEN [stock |-> st, success |-> FALSE]
    ELSE LET r == reduce_stock(st, items[k].product_id, items[k].quantity)
         IN  IF r.ret
             THEN ReduceStockFrom(r.stock, items, k + 1, fail_at)
             ELSE [stock |-> r.stock, success |-> FALSE]

\* OrderService.create_order(db, order_data): db.rollback() drops the order
\* flushed to the orders table; the stock is in the product service
create_order(db, st, items, fail_at) ==
    IF FirstRejected(st, items, 1) # 0
    THEN [db |-> db, stock |-> st, raised |-> "ValueError", ret |-> None]
    ELSE LET r == ReduceStockFrom(st, items, 1, fail_at)
         IN  IF ~r.success
             THEN [db |-> db, stock |-> r.stock, raised |-> "Exception", ret |-> None]
             ELSE [db |-> Append(db, [status |-> "pending"]), stock |-> r.stock,
                   raised |-> "none", ret |-> Some(Len(db) + 1)]

\* OrderService.update_order_status(db, order_id, status)
update_order_status(db, order_id, status) ==
    LET order == get_order(db, order_id)
    IN  IF order = None
        THEN [db |-> db, ret |-> None]
        ELSE [db |-> [db EXCEPT ![order_id].status = status],
              ret |-> Some([order[1] EXCEPT !.status = status])]

\* OrderService.cancel_order(db, order_id)
cancel_order(db, order_id) ==
    LET order == get_order(db, order_id)
    IN  IF order = None
        THEN [db |-> db, ret |-> FALSE]
        ELSE IF order[1].status # "pending"
        THEN [db |-> db, ret |-> FALSE]
        ELSE [db |-> [db EXCEPT ![order_id].status = "cancelled"], ret |-> TRUE]

OrdersInit ==
    /\ InitObjects
    /\ threads = <<>>
    /\ orders = <<>>
    /\ stock \in [ProductIds -> [stock : {MaxStock}, is_active : BOOLEAN]]
    /\ cluster = [replicas |-> 2, revision |-> 2]
    /\ DRY_RUN = FALSE
    /\ ai_available = FALSE
    /\ input = <<>>

\* POST /orders
OrdersCreate ==
    /\ Len(orders) < MaxOrders
    /\ \E items \in OrderItems, fail_at \in 0..MaxItems :
       \E r \in {create_order(orders, stock, items, fail_at)} :
          /\ orders' = r.db
          /\ stock' = r.stock
          /\ last' = [op |-> "create_order", items |-> items, fail_at |-> fail_at,
                      ret |-> r.ret,
                      http |-> IF r.raised = "none" THEN 201
                               ELSE IF r.raised = "ValueError" THEN 400 ELSE 500]
    /\ UNCHANGED <<stats, alert_history, action_history, actions_taken, cluster,
                   notifier, DRY_RUN, ai_available, input, threads>>

\* PATCH /orders/{order_id}/status
OrdersUpdateStatus ==
    /\ \E order_id \in OrderIds, status \in OrderStatus :
       \E r \in {update_order_status(orders, order_id, status)} :
          /\ orders' = r.db
          /\ last' = [op |-> "update_order_status", order_id |-> order_id,
                      status |-> status, ret |-> r.ret,
                      http |-> IF r.ret = None THEN 404 ELSE 200]
    /\ UNCHANGED <<stats, alert_history, action_history, actions_taken, cluster,
                   notifier, DRY_RUN, ai_available, input, threads, stock>>

\* POST /orders/{order_id}/cancel
OrdersCancel ==
    /\ \E order_id \in OrderIds :
       \E r \in {cancel_order(orders, order_id)} :
          /\ orders' = r.db
          /\ last' = [op |-> "cancel_order", order_id |-> order_id, ret |-> r.ret,
                      http |-> IF r.ret THEN 204 ELSE 400]
    /\ UNCHANGED <<stats, alert_history, action_history, actions_taken, cluster,
                   notifier, DRY_RUN, ai_available, input, threads, stock>>

OrdersNext == OrdersCreate \/ OrdersUpdateStatus \/ OrdersCancel

SpecOrders == OrdersInit /\ [][OrdersNext]_vars

----------------------------------------------------------------------------
(* Properties of HybridClassifier.should_auto_execute (SpecClassifier)     *)

IsGateCall == last.op = "HybridClassifier.should_auto_execute"

\* C2: for an action that is not investigate, with dry_run false,
\* should_auto_execute returns true exactly when the confidence is at least
\* 0.85; 0.85 itself gives true and 0.849999 gives false.
C2_ThresholdIff ==
    (IsGateCall /\ last.action.action_type # "investigate" /\ ~last.dry_run)
        => (last.ret <=> last.action.confidence >= 850000)

C2_Witness ==
    /\ IsGateCall /\ ~last.dry_run
    /\ last.action.action_type = "scale"
    /\ last.action.confidence = 850000
    /\ last.ret = TRUE

\* C3: should_auto_execute returns false for every investigate action, for
\* every confidence (1.0 included) and either value of dry_run.
C3_InvestigateNeverAuto ==
    (IsGateCall /\ last.action.action_type = "investigate") => last.ret = FALSE

C3_Witness ==
    /\ IsGateCall /\ ~last.dry_run
    /\ last.action.action_type = "investigate"
    /\ last.action.confidence = 1000000
    /\ last.ret = FALSE

\* C4: should_auto_execute returns false whenever dry_run is true, for every
\* action type and every confidence.
C4_DryRunNeverAuto ==
    (IsGateCall /\ last.dry_run) => last.ret = FALSE

C4_Witness ==
    /\ IsGateCall /\ last.dry_run
    /\ last.action.action_type = "restart"
    /\ last.action.confidence = 1000000
    /\ last.ret = FALSE
\* C31: should_auto_execute changes no state other than the auto_executed
\* counter: it adds exactly 1 to auto_executed when it returns true, leaves
\* every counter as it was when it returns false, and leaves the action it
\* was given as it was.
C31_GateChangesOnlyItsCounter ==
    [][ last'.op = "HybridClassifier.should_auto_execute"
        => /\ last'.ret
                => stats' = [stats EXCEPT !.auto_executed = stats.auto_executed + 1]
           /\ ~last'.ret => stats' = stats
           /\ last'.action_after = last'.action
           /\ UNCHANGED <<alert_history, action_history, actions_taken, cluster,
                          notifier, DRY_RUN, ai_available, stock>> ]_vars

\* a decision that is true, taken after one classification: auto_executed is
\* 1 and total_alerts is still 1
C31_Witness ==
    /\ IsGateCall
    /\ last.ret = TRUE
    /\ stats.auto_executed = 1
    /\ last.action_after = last.action
    /\ stats.total_alerts = 1

----------------------------------------------------------------------------
(* Properties of PatternMatcher.classify (SpecMatcher)                     *)

IsMatcherCall == last.op = "PatternMatcher.classify"

\* the alert name and the description PatternMatcher.classify reads
AlertNameOf(alert) == Get(Get(alert, "labels", <<>>), "alertname", "")
DescriptionOf(alert) == Lower(Get(Get(alert, "annotations", <<>>), "description", <<>>))

Rules == 1..Len(patterns)

\* C8, as claimed: an alert whose alertname is the alert_name of a rule gets
\* that rule's action, whatever its description is.
C8_NameMatchAlwaysWins ==
    IsMatcherCall =>
        \A i \in Rules :
            patterns[i].alert_name = AlertNameOf(last.alert)
                => last.ret = Some(patterns[i].action)

\* C8, amended: an alert whose alertname is the alert_name of a rule gets that
\* rule's action, provided its description matches the pattern of no rule
\* listed before that rule.
C8_NameMatchWinsUnlessEarlierPattern ==
    IsMatcherCall =>
        \A i \in Rules :
            (/\ patterns[i].alert_name = AlertNameOf(last.alert)
             /\ \A j \in 1..(i - 1) :
                    ~ReSearch(patterns[j].pattern, DescriptionOf(last.alert)))
                => last.ret = Some(patterns[i].action)

\* the name is that of a rule, the description matches the pattern of a later
\* rule and not the rule's own, and the rule's action is returned
C8_Witness ==
    /\ IsMatcherCall
    /\ \E i \in Rules, j \in Rules :
          /\ i < j
          /\ patterns[i].alert_name = AlertNameOf(last.alert)
          /\ ~ReSearch(patterns[i].pattern, DescriptionOf(last.alert))
          /\ ReSearch(patterns[j].pattern, DescriptionOf(last.alert))
          /\ patterns[j].action # patterns[i].action
          /\ last.ret = Some(patterns[i].action)

\* rule i matches the alert by name or by description
Matches(i, alert) ==
    \/ patterns[i].alert_name = AlertNameOf(alert)
    \/ ReSearch(patterns[i].pattern, DescriptionOf(alert))

\* C9: PatternMatcher.classify returns the action of the first rule, in list
\* order, that matches by name or by description (and nothing when no rule
\* matches).
C9_FirstRuleWins ==
    IsMatcherCall =>
        /\ \A i \in Rules :
              (Matches(i, last.alert) /\ \A j \in 1..(i - 1) : ~Matches(j, last.alert))
                  => last.ret = Some(patterns[i].action)
        /\ (\A i \in Rules : ~Matches(i, last.alert)) => last.ret = None

\* the description matches the patterns of two rules with different actions,
\* no rule matches by name, and the earlier rule's action is returned
C9_Witness ==
    /\ IsMatcherCall
    /\ \A i \in Rules : patterns[i].alert_name # AlertNameOf(last.alert)
    /\ \E i \in Rules, j \in Rules :
          /\ i < j
          /\ ReSearch(patterns[i].pattern, DescriptionOf(last.alert))
          /\ ReSearch(patterns[j].pattern, DescriptionOf(last.alert))
          /\ \A k \in 1..(i - 1) : ~ReSearch(patterns[k].pattern, DescriptionOf(last.alert))
          /\ patterns[j].action # patterns[i].action
          /\ last.ret = Some(patterns[i].action)

----------------------------------------------------------------------------
(* Properties of HybridClassifier.classify (SpecClassifier)                *)

IsClassifyCall == last.op = "HybridClassifier.classify"

\* C10: when the rule classifier returns an action, HybridClassifier.classify
\* does not call AIAnalyzer.analyze_alert, leaves the ai_analysis_used and
\* manual_review counters as they were, and returns the rule's action.
C10_RuleShortCircuitsReasoner ==
    [][ (last'.op = "HybridClassifier.classify"
            /\ PatternMatcher_classify(last'.alert) # None)
        => /\ last'.ai_calls = 0
           /\ last'.ai_requests = 0
           /\ stats'.ai_analysis_used = stats.ai_analysis_used
           /\ stats'.manual_review = stats.manual_review
           /\ last'.ret = PatternMatcher_classify(last'.alert)[1] ]_vars

\* a rule fired while the reasoner was available, after an earlier alert had
\* gone to the reasoner
C10_Witness ==
    /\ IsClassifyCall
    /\ ai_available
    /\ PatternMatcher_classify(last.alert) # None
    /\ last.ret = PatternMatcher_classify(last.alert)[1]
    /\ last.ai_calls = 0
    /\ stats.ai_analysis_used = 1
    /\ stats.rule_based_matches = 1

\* C11: for an alert that matches no rule by name or description, with the
\* reasoner unavailable, HybridClassifier.classify returns an investigate
\* action of confidence 0.0, does not call the reasoner, leaves the
\* ai_analysis_used counter as it was and adds one to manual_review.
C11_UnavailableFallsBackToManualReview ==
    [][ (last'.op = "HybridClassifier.classify"
            /\ ~ai_available
            /\ \A i \in Rules : ~Matches(i, last'.alert))
        => /\ last'.ret.action_type = "investigate"
           /\ last'.ret.confidence = 0
           /\ last'.ai_calls = 0
           /\ last'.ai_requests = 0
           /\ stats'.ai_analysis_used = stats.ai_analysis_used
           /\ stats'.manual_review = stats.manual_review + 1 ]_vars

\* an unmatched alert was sent to manual review with the reasoner unavailable,
\* after an earlier alert had been sent there too
C11_Witness ==
    /\ IsClassifyCall
    /\ ~ai_available
    /\ \A i \in Rules : ~Matches(i, last.alert)
    /\ last.ret.action_type = "investigate"
    /\ last.ret.confidence = 0
    /\ last.ai_calls = 0
    /\ stats.ai_analysis_used = 0
    /\ stats.manual_review = 2


ActionTypes == {"restart", "scale", "rollback", "investigate"}

\* C16, as claimed: every action HybridClassifier.classify returns, from a
\* rule, from a parsed reply or from a fallback, has one of the four action
\* types and a confidence in [0.0, 1.0], whatever the reasoner replies.
C16_ClassifiedActionInContract ==
    IsClassifyCall =>
        /\ last.ret.action_type \in ActionTypes
        /\ last.ret.confidence >= 0
        /\ last.ret.confidence <= 1000000
\* C28: one call of HybridClassifier.classify evaluates the rule classifier
\* exactly once, calls the reasoner at most once and only when the rule
\* classifier returned no match, sends at most one request to the reasoning
\* service, adds exactly 1 to total_alerts, and returns a RemediationAction.
C28_StrictWaterfall ==
    [][ last'.op = "HybridClassifier.classify"
        => /\ stats'.total_alerts = stats.total_alerts + 1
           /\ last'.rule_calls = 1
           /\ last'.ai_calls \in {0, 1}
           /\ last'.ai_calls = 1 => PatternMatcher_classify(last'.alert) = None
           /\ last'.ai_requests <= last'.ai_calls
           /\ DOMAIN last'.ret
                = {"action_type", "target", "parameters", "confidence", "reason"} ]_vars

\* the three tiers in turn: a call answered by a rule, a call answered by the
\* reasoner, and a call that fell through both to the manual-review fallback
C28_Witness ==
    /\ IsClassifyCall
    /\ stats.total_alerts = 2
    /\ stats.rule_based_matches = 1
    /\ last.ai_calls = 1
    /\ last.ai_requests = 1
    /\ PatternMatcher_classify(last.alert) = None
    /\ last.ret = ManualReviewAction
    /\ stats.manual_review = 1

\* 1 if the condition holds, else 0
Count(condition) == IF condition THEN 1 ELSE 0

\* C35: after any sequence of classify calls,
\*   rule_based_matches + manual_review <= total_alerts
\*       <= rule_based_matches + ai_analysis_used + manual_review,
\* and each call counts its alert once in total_alerts and in
\* rule_based_matches if a rule matched, in ai_analysis_used if the reasoner
\* was consulted, and in manual_review if no rule matched and the reasoner
\* gave no answer: so total_alerts is rule_based_matches + manual_review + the
\* number of alerts the reasoner answered, and an alert for which the
\* reasoner was consulted and yielded nothing is in both ai_analysis_used and
\* manual_review.
C35_CounterRelations ==
    /\ [](/\ stats.rule_based_matches + stats.manual_review <= stats.total_alerts
          /\ stats.total_alerts <= stats.rule_based_matches + stats.ai_analysis_used
                                      + stats.manual_review)
    /\ [][ last'.op = "HybridClassifier.classify"
            => LET matched == PatternMatcher_classify(last'.alert) # None
                   consulted == ~matched /\ ai_available
                   answered ==
                       /\ consulted
                       /\ analyze_alert(ai_available, last'.alert, last'.outcome).ret # None
               IN  stats' = [stats EXCEPT
                               !.total_alerts = @ + 1,
                               !.rule_based_matches = @ + Count(matched),
                               !.ai_analysis_used = @ + Count(consulted),
                               !.manual_review = @ + Count(~matched /\ ~answered)] ]_vars

\* two alerts: a rule matched one; the reasoner was consulted for the other
\* and yielded nothing, and it is counted twice
C35_Witness ==
    /\ IsClassifyCall
    /\ stats.total_alerts = 2
    /\ stats.rule_based_matches = 1
    /\ stats.ai_analysis_used = 1
    /\ stats.manual_review = 1
    /\ last.ai_calls = 1
    /\ last.outcome.kind = "raises"

----------------------------------------------------------------------------
(* Properties of AIAnalyzer.analyze_alert (SpecAnalyzer)                   *)

IsAnalyzeCall == last.op = "AIAnalyzer.analyze_alert"

\* a reply text came back to an available reasoner
GotReply == IsAnalyzeCall /\ ai_available /\ last.outcome.kind = "reply"

\* the reply text is no JSON document: it holds none, or it holds one behind
\* other text
NotValidJson(reply) == reply.payload.kind = "not_json" \/ reply.prose

\* the action is the investigate action of confidence 0.3 whose reason holds
\* a prefix of the reply text
IsInconclusive(action, reply) ==
    /\ action.action_type = "investigate"
    /\ action.confidence = 300000
    /\ Len(action.reason) = 3
    /\ action.reason[2].of = reply

\* C12: when the reply of the reasoner is not valid JSON, analyze_alert
\* returns an investigate action of confidence 0.3 whose reason contains a
\* prefix of the raw reply text.
C12_InvalidJsonIsInconclusive ==
    (GotReply /\ NotValidJson(last.outcome.reply))
        => /\ last.ret # None
           /\ IsInconclusive(last.ret[1], last.outcome.reply)

\* a fenced reply that holds no JSON document came back as inconclusive
C12_Witness ==
    /\ GotReply
    /\ last.outcome.reply.payload.kind = "not_json"
    /\ last.outcome.reply.fence = "json"
    /\ ~last.outcome.reply.prose
    /\ last.ret # None
    /\ IsInconclusive(last.ret[1], last.outcome.reply)

\* C13, as claimed: when the reply is a JSON object that lacks one or more of
\* the required keys, analyze_alert returns an investigate action of
\* confidence 0.3 whose reason contains a prefix of the raw reply text.
C13_MissingKeysIsInconclusive ==
    (GotReply /\ ~JSONDecodeError(last.outcome.reply)
              /\ last.outcome.reply.payload.kind = "object"
              /\ DOMAIN last.outcome.reply.payload.obj # RequiredKeys)
        => /\ last.ret # None
           /\ IsInconclusive(last.ret[1], last.outcome.reply)

\* C14, as claimed: when the request to the reasoning service raises,
\* analyze_alert returns an investigate action of confidence 0.0.
C14_RequestErrorIsInvestigate ==
    (IsAnalyzeCall /\ ai_available /\ last.outcome.kind = "raises")
        => /\ last.ret # None
           /\ last.ret[1].action_type = "investigate"
           /\ last.ret[1].confidence = 0

IsRemediationAction(x) ==
    DOMAIN x = {"action_type", "target", "parameters", "confidence", "reason"}

\* C15: analyze_alert never raises; whatever the reasoning service does
\* (unavailable, request error, reply without text, malformed reply,
\* well-formed reply), it returns an absence or a RemediationAction.
C15_AnalyzeNeverRaises ==
    IsAnalyzeCall =>
        /\ ~last.raised
        /\ last.ret = None \/ IsRemediationAction(last.ret[1])

\* an exception that is no request error (a reply without text) was absorbed
\* into an absence
C15_Witness ==
    /\ IsAnalyzeCall
    /\ ai_available
    /\ last.outcome.kind = "no_content"
    /\ last.requests = 1
    /\ ~last.raised
    /\ last.ret = None

----------------------------------------------------------------------------
(* Properties of KubernetesRemediator.execute (SpecExecutor)               *)

IsExecuteCall == last.op = "KubernetesRemediator.execute"

\* the replica counts the calls of the last execution patched the deployment to
PatchedReplicas ==
    { last.calls[k].replicas :
        k \in { n \in 1..Len(last.calls) :
                  last.calls[n].call = "patch_namespaced_deployment" } }

\* C5: with the executor's dry_run flag set, execute on a restart, scale or
\* rollback action issues no cluster call, appends nothing to actions_taken,
\* leaves the cluster as it was and returns a result of status dry_run.
C5_DryRunIssuesNoCall ==
    [][ (/\ last'.op = "KubernetesRemediator.execute"
         /\ DRY_RUN
         /\ last'.action.action_type \in {"restart", "scale", "rollback"})
        => /\ ~last'.raised
           /\ last'.calls = <<>>
           /\ actions_taken' = actions_taken
           /\ cluster' = cluster
           /\ last'.ret.status = "dry_run" ]_vars

\* a dry-run rollback of the deployment the cluster holds, while the cluster
\* would have failed the read, after an earlier execution
C5_Witness ==
    /\ IsExecuteCall /\ DRY_RUN
    /\ last.action.action_type = "rollback"
    /\ Get(last.alert.labels, "service", "unknown") = DeploymentName
    /\ last.oc.read = "other_error"
    /\ last.ret.status = "dry_run"
    /\ last.calls = <<>>
    /\ actions_taken = <<EarlierResult>>

\* C6: a scale action with direction down, to_spec not set, never patches the
\* deployment to fewer than 1 replica, whatever the current replica count
\* and the increment are.
C6_ScaleDownFloor ==
    (/\ IsExecuteCall
     /\ last.action.action_type = "scale"
     /\ Get(last.action.parameters, "direction", "up") = "down"
     /\ ~Get(last.action.parameters, "to_spec", FALSE))
        => /\ \A n \in PatchedReplicas : n >= 1
           /\ ~last.raised /\ last.ret.status = "success" => cluster.replicas >= 1

\* a scale down by more than the deployment has: it is patched to 1 replica
C6_Witness ==
    /\ IsExecuteCall /\ ~DRY_RUN
    /\ last.action.action_type = "scale"
    /\ Get(last.action.parameters, "direction", "up") = "down"
    /\ ~Get(last.action.parameters, "to_spec", FALSE)
    /\ Get(last.action.parameters, "increment", 1) = 3
    /\ ~last.raised /\ last.ret.status = "success"
    /\ last.ret["from"] = 2 /\ last.ret["to"] = 1
    /\ PatchedReplicas = {1}
    /\ cluster.replicas = 1

\* C38, as claimed: no scale execution patches the deployment to fewer than 1
\* replica, for every direction (up, down or another string), every integer
\* increment (zero and negative ones included), with or without to_spec, and
\* every current replica count of at least 1.
C38_ScaleNeverBelowOne ==
    [][ (/\ last'.op = "KubernetesRemediator.execute"
         /\ last'.action.action_type = "scale"
         /\ cluster.replicas >= 1)
        => /\ \A k \in 1..Len(last'.calls) :
                 last'.calls[k].call = "patch_namespaced_deployment"
                     => last'.calls[k].replicas >= 1
           /\ cluster'.replicas >= 1 ]_vars

\* a cluster call of the last execution failed
SomeCallFailed ==
    /\ last.calls # <<>>
    /\ \/ Len(last.calls) = 1 /\ last.calls[1].call # "delete_namespaced_pod"
          /\ OnDeployment(last.calls[1].name, last.oc.read) # "ok"
       \/ Len(last.calls) = 1 /\ last.calls[1].call = "delete_namespaced_pod"
          /\ OnPod(last.calls[1].name, last.oc.read) # "ok"
       \/ Len(last.calls) = 2 /\ OnDeployment(last.calls[2].name, last.oc.write) # "ok"

\* C7, as claimed: execute never raises; when a cluster call of a restart,
\* scale or rollback fails, with an ApiException or with any other exception,
\* the result has status error.
C7_ExecuteNeverRaises ==
    IsExecuteCall =>
        /\ ~last.raised
        /\ (last.action.action_type \in {"restart", "scale", "rollback"} /\ SomeCallFailed)
              => last.ret.status = "error"

\* the labels of the alert of the last execution
LastService == Get(Get(last.alert, "labels", <<>>), "service", "unknown")
LastHasPod == "pod" \in DOMAIN Get(last.alert, "labels", <<>>)

\* the diagnostic fetches of the last execution that the cluster answered
SucceededFetches ==
    (IF LastHasPod /\ OnPod(last.alert.labels["pod"], last.oc.pod) = "ok"
     THEN {"pod_status"} ELSE {})
    \cup (IF LastHasPod /\ OnPod(last.alert.labels["pod"], last.oc.log) = "ok"
          THEN {"recent_logs"} ELSE {})
    \cup (IF OnDeployment(LastService, last.oc.deployment) = "ok" THEN {"deployment"} ELSE {})
    \cup (IF last.oc.events = "ok" THEN {"events"} ELSE {})

NoMutatingCall == \A k \in 1..Len(last.calls) : last.calls[k].call \notin MutatingCalls

\* C21, as claimed: in the investigate branch, the failure of any single
\* diagnostic fetch (pod status, pod log tail, deployment counters, events)
\* does not abort the others: the result has status investigation and holds
\* the data of every fetch that succeeded, and no mutating call is issued.
C21_InvestigateToleratesFetchFailures ==
    (IsExecuteCall /\ last.action.action_type = "investigate")
        => /\ ~last.raised
           /\ last.ret.status = "investigation"
           /\ last.ret.data = SucceededFetches
           /\ NoMutatingCall

\* C22: for an action whose action_type is none of restart, scale, rollback,
\* investigate, execute issues no cluster call, appends nothing to
\* actions_taken, and returns a result of status error whose message names
\* the unrecognized type.
C22_UnknownTypeIsError ==
    [][ (/\ last'.op = "KubernetesRemediator.execute"
         /\ last'.action.action_type \notin ActionTypes)
        => /\ ~last'.raised
           /\ last'.calls = <<>>
           /\ actions_taken' = actions_taken
           /\ cluster' = cluster
           /\ last'.ret.status = "error"
           /\ last'.ret.message = <<"Unknown action type: ", last'.action.action_type>> ]_vars

\* an action of type delete was refused, dry-run off, after an earlier
\* execution, for an alert that names the pod and the deployment
C22_Witness ==
    /\ IsExecuteCall /\ ~DRY_RUN
    /\ last.action.action_type = "delete"
    /\ LastHasPod /\ LastService = DeploymentName
    /\ last.ret.status = "error"
    /\ last.calls = <<>>
    /\ actions_taken = <<EarlierResult>>

\* C30: a rollback execution with dry-run off reads the current revision of
\* the deployment and requests a rollback to current_revision minus
\* revisions_back (1 when the parameter is absent); every failure of the read
\* or of the request (non-zero exit of the undo command, or any exception)
\* gives a result of status error, is not raised, and appends nothing to
\* actions_taken.
C30_RollbackFailureIsError ==
    [][ (/\ last'.op = "KubernetesRemediator.execute"
         /\ ~DRY_RUN
         /\ last'.action.action_type = "rollback")
        => LET service == Get(Get(last'.alert, "labels", <<>>), "service", "unknown")
               read_ok == OnDeployment(service, last'.oc.read) = "ok"
               undo_ok == OnDeployment(service, last'.oc.write) = "ok"
           IN  /\ ~last'.raised
               /\ last'.calls # <<>>
               /\ last'.calls[1].call = "read_namespaced_deployment"
               /\ read_ok
                    => /\ Len(last'.calls) = 2
                       /\ last'.calls[2].call = "kubectl rollout undo"
                       /\ last'.calls[2].to_revision =
                            cluster.revision
                              - Get(last'.action.parameters, "revisions_back", 1)
               /\ ~(read_ok /\ undo_ok)
                    => /\ last'.ret.status = "error"
                       /\ actions_taken' = actions_taken
                       /\ cluster' = cluster
               /\ (read_ok /\ undo_ok) => last'.ret.status = "success" ]_vars

\* the undo command could not be run (an exception that is no ApiException)
\* after the read had succeeded, with revisions_back absent
C30_Witness ==
    /\ IsExecuteCall /\ ~DRY_RUN
    /\ last.action.action_type = "rollback"
    /\ last.action.parameters = <<>>
    /\ LastService = DeploymentName
    /\ last.oc.read = "ok" /\ last.oc.write = "other_error"
    /\ Len(last.calls) = 2
    /\ last.calls[2].to_revision = cluster.revision - 1
    /\ ~last.raised
    /\ last.ret.status = "error"
    /\ actions_taken = <<EarlierResult>>

----------------------------------------------------------------------------
(* Properties of sequences of executions (SpecExecutions)                  *)

IsSuccess(result) == result.status = "success"

\* C23: after any sequence of execute calls, actions_taken holds exactly the
\* results of status success of the restart, scale and rollback executions,
\* in execution order; no result of status error, dry_run or investigation is
\* in it; and the total_actions of get_stats is the sum of its counts by type.
C23_ActionsTakenAreSuccesses ==
    LET results == Get(last, "results", <<>>)
        s == get_stats(actions_taken, DRY_RUN)
    IN  /\ actions_taken = SelectSeq(results, IsSuccess)
        /\ \A i \in 1..Len(actions_taken) :
              /\ actions_taken[i].status = "success"
              /\ actions_taken[i].action \in {"restart", "scale", "rollback"}
        /\ s.total_actions = s.actions_by_type.restart + s.actions_by_type.scale
                               + s.actions_by_type.rollback

\* a failed execution followed by a successful one: one result was appended
C23_Witness ==
    /\ IsExecuteCall
    /\ Len(last.results) = 2
    /\ last.results[1].status = "error"
    /\ last.results[2].status = "success"
    /\ actions_taken = <<last.results[2]>>
    /\ get_stats(actions_taken, DRY_RUN).total_actions = 1

----------------------------------------------------------------------------
(* Properties of process_alert (Spec)                                      *)

IsProcessAlertCall == last.op = "process_alert"

\* C1, as claimed: after any sequence of process_alert calls, alert_history
\* holds one entry per alert that entered process_alert (classify counted
\* each in total_alerts), and action_history holds one entry per alert for
\* which should_auto_execute returned true (each counted in auto_executed),
\* also when the executor call fails or raises.
C1_OneEntryPerDecision ==
    /\ Len(alert_history) = stats.total_alerts
    /\ Len(action_history) = stats.auto_executed
    /\ (IsProcessAlertCall /\ last.should_auto)
          => /\ action_history # <<>>
             /\ action_history[Len(action_history)].action = last.action.action_type

\* the entry of the alert of the last call
LastEntry == alert_history[Len(alert_history)]

\* the chat webhook was asked and did not take the message, or the message
\* could not be built
NotificationFailed ==
    /\ notifier.enabled
    /\ last.notified = 1
    /\ last.post # "200" \/ last.escaped = Some("notify raised")

\* C17, as claimed: a failure of the notifier (webhook unreachable, non-200
\* reply, or an exception raised inside send_alert_notification) leaves the
\* outcome of process_alert as it is when the notification succeeds: the
\* entry is completed with the same action and result fields, and no error is
\* returned.
C17_NotifierFailureKeepsOutcome ==
    (IsProcessAlertCall /\ NotificationFailed)
        => /\ LastEntry.status = "completed"
           /\ LastEntry.action = [type |-> last.action.action_type,
                                  confidence |-> last.action.confidence,
                                  auto_executed |-> last.should_auto,
                                  result |-> last.notification]
           /\ "status" \notin DOMAIN last.ret
           /\ last.ret.execution_result = last.notification

\* C18, as claimed: when an auto-executed action fails at the cluster,
\* process_alert records the entry as completed with an execution result of
\* status error, appends an action_history entry with that result, and
\* passes the result to the notifier.
C18_ClusterFailureIsCompleted ==
    (IsProcessAlertCall /\ last.should_auto
        /\ last.action.action_type \in {"restart", "scale", "rollback"}
        /\ SomeCallFailed)
        => /\ LastEntry.status = "completed"
           /\ LastEntry.action.result # None
           /\ LastEntry.action.result[1].status = "error"
           /\ action_history # <<>>
           /\ action_history[Len(action_history)].result = LastEntry.action.result[1]
           /\ last.notified = 1
           /\ last.notification = LastEntry.action.result

\* C19: when an exception escapes the classify / decide / execute / notify
\* steps, process_alert does not raise: the entry of the alert is failed with
\* the message of the exception, an error outcome with that message is
\* returned, and webhook goes on with the remaining alerts of the payload.
C19_EscapedExceptionIsRecorded ==
    (IsProcessAlertCall /\ last.escaped # None)
        => /\ ~last.raised
           /\ LastEntry.status = "failed"
           /\ LastEntry.error = last.escaped[1]
           /\ last.ret.status = "error"
           /\ last.ret.error = last.escaped[1]
           /\ input = last.remaining - 1

\* the notifier raised on the first of the alerts of a payload; the alert is
\* failed and the next one is still to be processed
C19_Witness ==
    /\ IsProcessAlertCall
    /\ last.escaped = Some("notify raised")
    /\ ~last.raised
    /\ LastEntry.status = "failed"
    /\ last.ret.status = "error"
    /\ last.remaining >= 2
    /\ input = last.remaining - 1
\* C29: for every alert process_alert completes without an exception leaving
\* the steps, the steps are, in this order, classify, should_auto_execute,
\* execute (only when the gate returned true), notify, completed; the
\* notifier is called exactly once, executed or not, and it is handed the
\* action, the execution result and the auto-execute flag that the entry of
\* the alert records.
C29_LinearSteps ==
    (IsProcessAlertCall /\ last.escaped = None)
        => /\ last.steps = <<"classify", "should_auto_execute">>
                             \o (IF last.should_auto THEN <<"execute">> ELSE <<>>)
                             \o <<"notify", "completed">>
           /\ last.executed = last.should_auto
           /\ last.notified = 1
           /\ LastEntry.status = "completed"
           /\ last.notify_args # None
           /\ last.notify_args[1].action = last.action
           /\ LastEntry.action.type = last.notify_args[1].action.action_type
           /\ LastEntry.action.confidence = last.notify_args[1].action.confidence
           /\ LastEntry.action.result = last.notify_args[1].execution_result
           /\ LastEntry.action.auto_executed = last.notify_args[1].auto_executed

\* an executed alert: the five steps, the notifier handed the result that the
\* entry records
C29_Witness ==
    /\ IsProcessAlertCall
    /\ last.escaped = None
    /\ last.steps = <<"classify", "should_auto_execute", "execute", "notify", "completed">>
    /\ last.notify_args[1].execution_result # None
    /\ last.notify_args[1].execution_result = LastEntry.action.result
    /\ last.notify_args[1].auto_executed

\* process_alert issued a call that changes the cluster
IssuedMutatingCall ==
    \E i \in 1..Len(last.calls) : last.calls[i].call \in MutatingCalls

\* C33: process_alert issues a mutating cluster call (delete pod, patch
\* deployment, rollout undo) only if should_auto_execute returned true for the
\* action of the alert, that is only if DRY_RUN is off, the action type is not
\* investigate and the confidence is at least 0.85, for the action of a rule
\* as for the action of the reasoner.
C33_MutationOnlyWhenGateTrue ==
    (IsProcessAlertCall /\ IssuedMutatingCall)
        => /\ last.should_auto
           /\ ~DRY_RUN
           /\ last.action.action_type # "investigate"
           /\ last.action.confidence >= 850000

\* an action of the reasoner, of confidence 0.9, deleted the pod
C33_Witness ==
    /\ IsProcessAlertCall
    /\ IssuedMutatingCall
    /\ PatternMatcher_classify(last.alert) = None
    /\ last.action.confidence = 900000
    /\ last.should_auto
    /\ actions_taken # <<>>

\* the execution results process_alert has stored: those of action_history
\* and those of the entries of alert_history
StoredResults ==
    { action_history[i].result : i \in 1..Len(action_history) }
    \cup { alert_history[i].action.result[1] :
             i \in { j \in 1..Len(alert_history) :
                        /\ alert_history[j].status = "completed"
                        /\ alert_history[j].action.result # None } }

\* C34: every execution result process_alert stores in action_history or in
\* an entry of alert_history has status success or error; the statuses
\* dry_run and investigation are never stored, because the executor is not
\* called when DRY_RUN is set or when the action is investigate.
C34_StoredResultsAreSuccessOrError ==
    /\ \A result \in StoredResults : result.status \in {"success", "error"}
    /\ (IsProcessAlertCall /\ last.executed)
           => ~DRY_RUN /\ last.action.action_type # "investigate"

\* a result of status success and one of status error are stored
C34_Witness ==
    /\ IsProcessAlertCall
    /\ Len(action_history) = 2
    /\ { action_history[i].result.status : i \in 1..2 } = {"success", "error"}
    /\ Cardinality(StoredResults) = 2

\* C36: after any sequence of process_alert calls,
\*   len(actions_taken) <= len(action_history) <= auto_executed <= total_alerts,
\* and auto_executed counts every alert for which should_auto_execute
\* returned true, also when the execution ended in error or raised.
C36_CountersOfExecutions ==
    /\ [](/\ Len(actions_taken) <= Len(action_history)
          /\ Len(action_history) <= stats.auto_executed
          /\ stats.auto_executed <= stats.total_alerts)
    /\ [][ last'.op = "process_alert"
            => stats'.auto_executed = stats.auto_executed + Count(last'.should_auto) ]_vars

\* two alerts were to be executed: one execution raised and the other ended in
\* error, and both are counted
C36_Witness ==
    /\ IsProcessAlertCall
    /\ stats.total_alerts = 2
    /\ stats.auto_executed = 2
    /\ Len(action_history) = 1
    /\ action_history[1].result.status = "error"
    /\ actions_taken = <<>>
    /\ \E i \in 1..2 : alert_history[i].status = "failed"
----------------------------------------------------------------------------
(* Properties of the end-to-end scenarios (SpecScenario)                   *)

\* the crash-loop alert of the scenario was processed with dry-run off, and
\* the cluster accepts the calls made
CrashLoopScenario ==
    /\ IsProcessAlertCall
    /\ ~DRY_RUN
    /\ last.alert.labels.alertname = "PodCrashLooping"
    /\ last.alert.annotations.description = PodInCrashLoopDescription
    /\ last.oc.read = "ok"
    /\ last.oc.write = "ok"

\* the pod was deleted with a grace period of 30 seconds and the execution
\* returned status success
PodDeletedWithGrace30 ==
    /\ Len(last.calls) = 1
    /\ last.calls[1].call = "delete_namespaced_pod"
    /\ last.calls[1].grace_period_seconds = 30
    /\ action_history # <<>>
    /\ action_history[Len(action_history)].result.status = "success"

\* C24, as claimed: with dry-run off, the alert with labels
\* {alertname: PodCrashLooping} and description "pod in crash loop" is
\* classified restart / pod / 0.95, auto-executed, and the execution deletes
\* the pod with a 30-second grace period and returns status success.
C24_CrashLoopDeletesPod ==
    CrashLoopScenario
        => /\ last.action.action_type = "restart"
           /\ last.action.target = "pod"
           /\ last.action.confidence = 950000
           /\ last.should_auto
           /\ PodDeletedWithGrace30

\* C24, amended: the alert is classified restart / pod / 0.95 and
\* auto-executed whatever its other labels; the execution deletes the pod
\* with a 30-second grace period and returns success when the alert carries a
\* pod label naming a pod of the cluster.  Without a pod label the execution
\* restarts the deployment of the service label, and with neither label it
\* asks for the deployment "unknown" and returns status error.
C24_CrashLoopDeletesNamedPod ==
    CrashLoopScenario
        => /\ last.action.action_type = "restart"
           /\ last.action.target = "pod"
           /\ last.action.confidence = 950000
           /\ last.should_auto
           /\ ("pod" \in DOMAIN last.alert.labels /\ last.alert.labels.pod = PodName)
                 => /\ PodDeletedWithGrace30
                    /\ last.calls[1].name = PodName
           /\ "pod" \notin DOMAIN last.alert.labels
                 => /\ last.calls[1].call = "read_namespaced_deployment"
                    /\ \A i \in 1..Len(last.calls) :
                          last.calls[i].call # "delete_namespaced_pod"
           /\ DOMAIN last.alert.labels = {"alertname"}
                 => /\ last.calls[1].name = "unknown"
                    /\ action_history[Len(action_history)].result.status = "error"

\* the crash-loop alert naming the pod: the pod is deleted
C24_Witness ==
    /\ CrashLoopScenario
    /\ "pod" \in DOMAIN last.alert.labels
    /\ last.alert.labels.pod = PodName
    /\ last.should_auto
    /\ PodDeletedWithGrace30
    /\ actions_taken # <<>>
\* C25, as claimed: for the alert TooFewReplicas on the deployment that runs
\* 2 replicas and was specified with 5, the scale action has to_spec set, the
\* execution result reports from 2 to 5, and the deployment is patched to 5
\* replicas.
C25_ToSpecScalesToSpecifiedCount ==
    (IsProcessAlertCall /\ ~DRY_RUN /\ last.alert.labels.alertname = "TooFewReplicas"
        /\ last.oc.read = "ok" /\ last.oc.write = "ok")
        => /\ last.action.action_type = "scale"
           /\ Get(last.action.parameters, "to_spec", FALSE)
           /\ last.should_auto
           /\ action_history # <<>>
           /\ action_history[Len(action_history)].result.status = "success"
           /\ action_history[Len(action_history)].result.from = 2
           /\ action_history[Len(action_history)].result.to = 5
           /\ last.calls[Len(last.calls)].call = "patch_namespaced_deployment"
           /\ last.calls[Len(last.calls)].replicas = 5
           /\ cluster.replicas = 5
\* C26, as claimed: for an alert that matches no rule while the reasoner is
\* unavailable, process_alert yields an investigate action of confidence 0.0,
\* does not call the executor, appends no action_history entry, and marks the
\* entry of the alert completed with auto_executed false and no execution
\* result.
C26_UnmatchedUnavailableIsCompleted ==
    (IsProcessAlertCall /\ ~ai_available /\ PatternMatcher_classify(last.alert) = None)
        => /\ last.action.action_type = "investigate"
           /\ last.action.confidence = 0
           /\ ~last.should_auto
           /\ ~last.executed
           /\ last.calls = <<>>
           /\ action_history = <<>>
           /\ LastEntry.status = "completed"
           /\ LastEntry.action.auto_executed = FALSE
           /\ LastEntry.action.result = None

----------------------------------------------------------------------------
(* Properties of concurrent request threads (SpecConcurrent)               *)

AllDone == \A t \in Threads : threads[t].pc = "done"

\* C20, as claimed: for every interleaving of the alert-processing threads
\* run to completion, total_alerts equals the number of threads and every
\* other counter equals the number of events it counts: no increment is lost.
C20_NoLostIncrement ==
    AllDone =>
        /\ stats.total_alerts = MaxThreads
        /\ \A c \in Counters :
              CounterValue(c) = Cardinality({t \in Threads : c \in threads[t].counted})

\* the entry i of alert_history is recorded, in one of the given statuses
EntryIn(i, statuses) == i <= Len(alert_history) /\ alert_history[i].status \in statuses

\* C32: every entry recorded in state processing eventually is completed or
\* failed, when the threads keep running and their external calls return or
\* fail; and no thread leaves process_alert with its entry still in
\* processing.
C32_ProcessingEnds ==
    /\ \A i \in 1..MaxThreads :
           EntryIn(i, {"processing"}) ~> EntryIn(i, {"completed", "failed"})
    /\ [](\A t \in Threads :
             threads[t].pc = "done"
                 => EntryIn(threads[t].entry, {"completed", "failed"}))

\* an execution raised and its entry is failed, while the entry of the other
\* thread is completed
C32_Witness ==
    /\ AllDone
    /\ \E i, j \in 1..MaxThreads :
          EntryIn(i, {"failed"}) /\ EntryIn(j, {"completed"})

\* one step on the entries of alert_history: an entry is appended in state
\* processing behind the others, or entries change; the status of an entry
\* goes from processing to completed or to failed and then stays, and an
\* entry is changed only by the thread that appended it
EntriesStepOk ==
    /\ Len(alert_history') >= Len(alert_history)
    /\ \A i \in 1..Len(alert_history') :
          IF i > Len(alert_history)
          THEN alert_history'[i].status = "processing"
          ELSE /\ alert_history'[i].alert = alert_history[i].alert
               /\ alert_history'[i].status # alert_history[i].status
                     => /\ alert_history[i].status = "processing"
                        /\ alert_history'[i].status \in {"completed", "failed"}
               /\ alert_history'[i] # alert_history[i]
                     => \E t \in Threads :
                           /\ threads[t].entry = i
                           /\ threads'[t] # threads[t]
                           /\ \A u \in Threads \ {t} : threads'[u] = threads[u]

\* a completed entry carries an action record and a failed entry an error
EntriesCarryOutcome ==
    \A i \in 1..Len(alert_history) :
        /\ alert_history[i].status = "completed" => "action" \in DOMAIN alert_history[i]
        /\ alert_history[i].status = "failed" => "error" \in DOMAIN alert_history[i]

\* C37, as claimed: each entry of alert_history goes from processing to
\* exactly one of completed and failed, once, and keeps that status; under
\* any interleaving of the threads each thread updates only its own entry,
\* the entries stay in arrival order, and a completed entry carries an action
\* record while a failed entry carries an error message.
C37_EntriesAreOwnedAndFinal ==
    /\ [][EntriesStepOk]_vars
    /\ []EntriesCarryOutcome
----------------------------------------------------------------------------
(* Properties of the order service (SpecOrders)                            *)

\* C27, as claimed: over any sequence of create-order, update-status and
\* cancel operations, the status of an order changes to cancelled only when
\* it was pending immediately before; and a cancel request on a missing or a
\* non-pending order returns failure and leaves the orders unchanged.
C27_OnlyPendingOrdersAreCancelled ==
    [][ /\ \A id \in DOMAIN orders :
              (orders[id].status # "cancelled" /\ orders'[id].status = "cancelled")
                  => orders[id].status = "pending"
        /\ (last'.op = "cancel_order"
              /\ (last'.order_id \notin DOMAIN orders
                    \/ orders[last'.order_id].status # "pending"))
              => /\ last'.ret = FALSE
                 /\ orders' = orders ]_vars

\* the quantity of product p that the items from k on order
RECURSIVE Ordered(_, _, _)
Ordered(items, p, k) ==
    IF k > Len(items) THEN 0
    ELSE (IF items[k].product_id = p THEN items[k].quantity ELSE 0)
         + Ordered(items, p, k + 1)

\* C39, as claimed: create_order is all-or-nothing with respect to the stock
\* of the products: when it fails at any step (validation, stock check, or a
\* reduce_stock call for any item of the order), no order is persisted and no
\* stock has been reduced; when it succeeds, an order is persisted and the
\* stock of each product is reduced by exactly the quantity ordered of it.
C39_CreateOrderAllOrNothing ==
    [][ last'.op = "create_order"
        => IF last'.ret = None
           THEN orders' = orders /\ stock' = stock
           ELSE /\ Len(orders') = Len(orders) + 1
                /\ \A p \in ProductIds :
                      stock'[p].stock = stock[p].stock - Ordered(last'.items, p, 1) ]_vars

====
